---- MODULE Spec2Model ----
(***************************************************************************)
(* A model of the local-code turn controller: the Conversation store       *)
(* (agent/conversation.rs), the Agent turn (agent/core.rs), the mode       *)
(* policy (agent/mode.rs), the streaming client (llm/streaming.rs) and the *)
(* LSP driver (tools/lsp/client.rs, tools/lsp/operations.rs, main.rs).     *)
(***************************************************************************)
EXTENDS Integers, Sequences, FiniteSets, TLC

VARIABLES
    \* ---- Conversation (agent/conversation.rs) ----
    messages,        \* Conversation.messages: sequence of Message records
    max_messages,    \* Conversation.max_messages
    overflow_checks, \* build profile: TRUE = usize overflow panics, FALSE = wraps
    panicked,        \* TRUE once an arithmetic-overflow panic has unwound the task
    \* ---- history of the last Conversation operation ----
    lastOp,          \* name of the last Conversation operation
    preTrunc,        \* the message list truncate_if_needed last looked at
    truncated,       \* TRUE iff the last operation took the truncating branch
    nextId,          \* next fresh content identifier
    \* ---- Agent turn (agent/core.rs, agent/mode.rs) ----
    mode,            \* ModeManager.current: "plan" or "execute"
    registry,        \* names registered in Agent.tools
    pc,              \* position of the turn: idle, llm, connect, streaming, tools, done
    kind,            \* process, process_streaming or process_streaming_with_callback
    calls,           \* tool calls of the reply that the loop has not reached yet
    turnCalls,       \* all tool calls parsed from the reply of this turn
    turnPre,         \* Conversation.messages when the turn began
    executed,        \* log of Tool::execute invocations of this turn
    prompts,         \* log of confirmation prompts shown to the user
    outcome,         \* how the last turn returned: none, ok, err
    transport,       \* transport failure of this turn: none, connect, status, midstream
    full_response,   \* the turn's full_response String, as the sequence of the pieces pushed
    \* ---- streaming client (llm/streaming.rs) ----
    body,            \* lines of the HTTP body the producer has not read yet
    channel,         \* chunks sent by the producer and not yet received
    producer,        \* producer task: none, running, closed
    accumulated,     \* StreamingResponse.accumulated_text, as a sequence of segments
    delivered,       \* chunks returned by StreamingResponse::next, in order
    parsed,          \* chunks the producer built from the body, in order
    httpRequests,    \* POSTs issued by generate_streaming in this call
    \* ---- language server driver (tools/lsp/client.rs, main.rs) ----
    lsp_client,      \* main's shared Option<LspClient>: none, some, taken
    request_id,      \* LspClient.request_id
    sent,            \* frames written to the server's stdin, in order
    pipe,            \* frames the server wrote to stdout and nobody read yet
    closed,          \* the server closed its stdout
    replies,         \* responses the server has written so far
    notified,        \* number of notifications the server has emitted
    lspPc,           \* position of the program: start, read, repl, exited
    pending,         \* the request whose read_response is awaited
    returns,         \* log of the returns of LspClient::request
    ops,             \* number of LSP tool executions so far
    \* ---- retry loop of the LLM client (llm/client.rs) ----
    retry_config,    \* OllamaClient.retry_config
    attempt,         \* loop variable of send_with_retry
    rPc,             \* position of send_with_retry: call, done
    attempts,        \* log of the results of operation(), in order
    sleeps,          \* log of the durations slept, in milliseconds
    retResult,       \* what send_with_retry returned
    \* ---- self-verification loop of the REPL (main.rs 356-445) ----
    fPc,             \* position: block (top of the for loop), loop (top of the while), done
    processed_text,  \* main's `processed`: the message displayed, as its sequence of code blocks
    code_blocks,     \* the (lang, code) pairs extracted before the for loop
    blockIdx,        \* index of the block the for loop is at
    fix_attempts,    \* main's `attempts` counter of the while loop
    current_code,    \* main's current_code
    fixRequests,     \* agent.process calls made by the while loop for this block
    verifyCalls,     \* verifier.verify calls made for this block
    verifyLog,       \* the VERIFY messages printed and the warnings logged, in order
    \* ---- the prompt of a turn (core.rs 136-141) ----
    prompt,          \* the prompt last handed to the LLM client
    \* ---- compressing a conversation (compression.rs) ----
    cPc,             \* position: conversation, compressed, converted
    compression_config, \* the compressor's config, reduced to preserve_recent
    compressed,      \* the CompressedConversation that compress returned
    recompressed,    \* what compress returns for the conversation to_conversation built
    \* ---- the token estimator (compression.rs 185-206) ----
    token_estimate,  \* what the estimator returned for the conversation, per message and in all
    \* ---- the tool-call parser (llm/tool_call.rs) ----
    response,        \* the response text, as its sequence of tokens
    parsed_response, \* what parse and split_response returned for it
    \* ---- the persisted history (agent/history.rs) ----
    history_file,    \* the messages of the file that save wrote, or NoFile
    loaded,          \* the messages of the Conversation that load returned, or NotLoaded
    \* ---- one execution of a tool (tools/) ----
    tool_call,       \* the tool and the params given to Tool::execute
    tool_return,     \* what execute returned
    file_content,    \* the content of the file at file_path
    effects,         \* what the execution did to the filesystem, the shell and git, in order
    child,           \* the process that bash spawned: none, running, exited, killed
    clock,           \* seconds since bash started to wait for its child
    \* ---- a tool call dispatched while another task holds a ModeManager clone ----
    mode_checked,    \* the Mode that is_tool_allowed read for the call being denied
    \* ---- the bare-JSON fallback of the parser (llm/tool_call.rs 63-85) ----
    raw_text,        \* the text given to find_raw_json, as its sequence of characters
    raw_json,        \* what find_raw_json returned for it
    \* ---- a child process and its two pipes (executor.rs 87-105, git/operations.rs 11-42) ----
    runner,          \* who spawned the child: none, bash (under a timeout) or git
    program,         \* what the child writes before it exits: a sequence of out and err blocks
    written,         \* number of blocks of the program the child has written
    writer,          \* the child: none, running, exited
    out_pipe,        \* blocks in the stdout pipe that nobody has read
    err_pipe,        \* blocks in the stderr pipe that nobody has read
    reader,          \* the tool: none, stdout, stderr, wait, returned, timed_out
    out_read,        \* blocks the tool has read into its stdout String
    err_read,        \* blocks the tool has read into its stderr String
    \* ---- the skill registry (skills/registry.rs) ----
    skills,          \* SkillRegistry.skills: name -> Skill, NoSkill where the map has no entry
    superpowers_skills, \* SkillRegistry.superpowers_skills, likewise
    inserted         \* log of the insert_skill calls, in order

convVars == <<messages, max_messages, overflow_checks, panicked>>
histVars == <<lastOp, preTrunc, truncated, nextId>>
turnVars == <<mode, registry, pc, kind, calls, turnCalls, turnPre, executed,
              prompts, outcome, transport, full_response>>
streamVars == <<body, channel, producer, accumulated, delivered, parsed,
                httpRequests>>
lspVars == <<lsp_client, request_id, sent, pipe, closed, replies, notified,
             lspPc, pending, returns, ops>>
retryVars == <<retry_config, attempt, rPc, attempts, sleeps, retResult>>
\* the groups that neither the Conversation, the turn nor the LSP driver touch
fixVars == <<fPc, processed_text, code_blocks, blockIdx, fix_attempts, current_code,
             fixRequests, verifyCalls, verifyLog>>
compressVars == <<cPc, compression_config, compressed, recompressed>>
sideVars == <<token_estimate, response, parsed_response>>
persistVars == <<history_file, loaded>>
toolVars == <<tool_call, tool_return, file_content, effects, child, clock>>
dispatchVars == <<mode_checked>>
rawVars == <<raw_text, raw_json>>
pipeVars == <<runner, program, written, writer, out_pipe, err_pipe, reader, out_read,
              err_read>>
skillVars == <<skills, superpowers_skills, inserted>>
moreVars == <<dispatchVars, rawVars, pipeVars, skillVars>>
ioVars == <<persistVars, toolVars, moreVars>>
lateVars == <<retryVars, fixVars, prompt, compressVars, sideVars, ioVars>>
vars == <<convVars, histVars, turnVars, streamVars, lspVars, lateVars>>

\* everything but the Conversation and its history
notConv == <<turnVars, streamVars, lspVars, lateVars>>

\* everything but the language server driver
notLsp == <<convVars, histVars, turnVars, streamVars, lateVars>>

----------------------------------------------------------------------------
\* Bounds of the model
MaxMax == 3          \* largest max_messages explored by the Conversation spec
MaxIds == 3          \* number of fresh messages created by add/set_system
MaxLoad == 2         \* longest persisted history that is loaded
MaxPreserve == 1     \* largest preserve_recent used by compress
MaxCalls == 2        \* segments of a model reply
MaxBody == 2         \* lines of a streaming HTTP body
SmallMaxMessages == 5   \* a max_messages small enough for a turn to overflow
MaxLspOps == 1       \* executions of the LSP tools
MaxNotifications == 1   \* notifications the language server emits
MaxRetries == 2      \* largest retry.max_retries explored
MaxIndex == 3        \* largest attempt index given to calculate_backoff
MaxBlocks == 1       \* code blocks of an assistant message
MaxFixRequests == 4  \* fix requests followed for one block
MaxNonSystem == 3    \* non-System messages of a short conversation given to compress
MaxAscii == 5        \* ASCII characters of a text given to the estimator
MaxNonAscii == 2     \* other characters of a text given to the estimator
MaxEstimated == 2    \* messages of a conversation given to the estimator
MaxTokens == 6       \* tokens of a response given to the parser
MaxSaved == 3        \* messages of a short conversation that is saved
MaxOld == 2          \* characters of a short old_string given to edit
MaxContent == 4      \* characters of a file that edit is run on
MaxRun == 4          \* seconds the longest bash command runs for
MaxTimeout == 2      \* largest timeout parameter given to bash
MaxMatches == 1      \* matching lines of a small file given to grep
MaxGrepFiles == 2    \* files of a directory given to grep

\* Program constants
DefaultMaxMessages == 100
UsizeModulus == 2^30   \* usize arithmetic, width reduced to fit TLC integers
ChannelCapacity == 100

----------------------------------------------------------------------------
\* Role and Message (conversation.rs)
Roles == {"System", "User", "Assistant", "Tool"}

Text(n) == [kind |-> "text", n |-> n]

MessageSystem(c) == [role |-> "System", tool_name |-> "none", content |-> c]
MessageUser(c) == [role |-> "User", tool_name |-> "none", content |-> c]
MessageAssistant(c) == [role |-> "Assistant", tool_name |-> "none", content |-> c]
MessageTool(name, c) == [role |-> "Tool", tool_name |-> name, content |-> c]

MessageOfRole(r, c) ==
    CASE r = "System" -> MessageSystem(c)
      [] r = "User" -> MessageUser(c)
      [] r = "Assistant" -> MessageAssistant(c)
      [] OTHER -> MessageTool("read", c)

IsSystem(m) == m.role = "System"
IsNonSystem(m) == m.role # "System"

SystemMsgs(msgs) == SelectSeq(msgs, IsSystem)
NonSystemMsgs(msgs) == SelectSeq(msgs, IsNonSystem)

\* Vec::skip(n) and the slices used by compress
Skip(s, n) == IF n >= Len(s) THEN <<>> ELSE SubSeq(s, n + 1, Len(s))
Take(s, n) == IF n >= Len(s) THEN s ELSE SubSeq(s, 1, n)

\* usize arithmetic
WrappingSub(a, b) == (a - b) % UsizeModulus
SaturatingSub(a, b) == IF a >= b THEN a - b ELSE 0

\* Conversation::truncate_if_needed: does `max_messages - system_msgs.len()` overflow?
TruncateOverflows(msgs, max) ==
    Len(msgs) > max /\ Len(SystemMsgs(msgs)) > max

\* truncate_if_needed keeping the oldest non-System messages instead of the newest
TruncateIfNeeded_KeepsOldest(msgs, max) ==
    IF Len(msgs) > max
    THEN LET system_msgs == SystemMsgs(msgs)
             non_system == NonSystemMsgs(msgs)
             keep_count == WrappingSub(max, Len(system_msgs))
         IN  system_msgs \o Take(non_system, keep_count)
    ELSE msgs

\* Conversation::truncate_if_needed (the overflow, if any, wraps)
TruncateIfNeeded(msgs, max) ==
    IF Len(msgs) > max
    THEN LET system_msgs == SystemMsgs(msgs)
             non_system == NonSystemMsgs(msgs)
             keep_count == WrappingSub(max, Len(system_msgs))
             skip == SaturatingSub(Len(non_system), keep_count)
         IN  system_msgs \o Skip(non_system, skip)
    ELSE msgs

\* Conversation::set_system
SetSystemMsgs(msgs, c) == <<MessageSystem(c)>> \o NonSystemMsgs(msgs)

\* Conversation::add on a conversation that cannot overflow
AddMsg(msgs, m, max) == TruncateIfNeeded(Append(msgs, m), max)

\* Conversation::clear
ClearMsgs(msgs) ==
    IF SystemMsgs(msgs) # <<>> THEN <<Head(SystemMsgs(msgs))>> ELSE <<>>

----------------------------------------------------------------------------
\* the characters of the texts the contents stand for
Chars(c) ==
    IF c.kind = "chars" THEN [ascii |-> c.ascii, non_ascii |-> c.non_ascii]
    ELSE IF c.kind = "summary" THEN [ascii |-> 48, non_ascii |-> 0]
    ELSE IF c.kind = "input" THEN [ascii |-> 10, non_ascii |-> 3]
    ELSE [ascii |-> 21, non_ascii |-> 0]

\* an estimator that rounds each share up
EstimateTextTokens_RoundsUp(ch) == ((ch.ascii + 3) \div 4) + ((ch.non_ascii + 1) \div 2)

\* ContextCompressor::estimate_text_tokens, estimate_message_tokens, estimate_tokens
EstimateTextTokens(ch) == (ch.ascii \div 4) + (ch.non_ascii \div 2) + 1
EstimateMessageTokens(m) == EstimateTextTokens(Chars(m.content)) + 4

RECURSIVE SumTokens(_, _, _)
SumTokens(msgs, from, to) ==
    IF from > to THEN 0
    ELSE IF from = to THEN EstimateMessageTokens(msgs[from])
    ELSE LET mid == (from + to) \div 2
         IN  SumTokens(msgs, from, mid) + SumTokens(msgs, mid + 1, to)

EstimateTokens(msgs) == SumTokens(msgs, 1, Len(msgs))

\* ContextCompressor::compress; the summary text is kept as a token
Compress_AlwaysSummarizes(msgs, preserve_recent) ==
    LET sys == SystemMsgs(msgs)
        non_system == NonSystemMsgs(msgs)
        split_point == SaturatingSub(Len(non_system), preserve_recent)
        summary == [kind |-> "summary", n |-> split_point]
    IN  [system_message |-> Take(sys, 1),
         compressed_history |-> <<summary>>,
         preserved_messages |-> Skip(non_system, split_point),
         original_message_count |-> Len(msgs),
         estimated_tokens_saved |->
             SaturatingSub(EstimateTokens(Take(non_system, split_point)),
                           EstimateTextTokens(Chars(summary)))]

Compress(msgs, preserve_recent) ==
    LET sys == SystemMsgs(msgs)
        non_system == NonSystemMsgs(msgs)
        split_point == Len(non_system) - preserve_recent
        summary == [kind |-> "summary", n |-> split_point]
    IN  IF Len(non_system) <= preserve_recent
        THEN [system_message |-> Take(sys, 1),
              compressed_history |-> <<>>,
              preserved_messages |-> non_system,
              original_message_count |-> Len(msgs),
              estimated_tokens_saved |-> 0]
        ELSE [system_message |-> Take(sys, 1),
              compressed_history |-> <<summary>>,
              preserved_messages |-> Skip(non_system, split_point),
              original_message_count |-> Len(msgs),
              estimated_tokens_saved |->
                  SaturatingSub(EstimateTokens(Take(non_system, split_point)),
                                EstimateTextTokens(Chars(summary)))]

\* conv.add for each message of toAdd in order (the sequence is halved to keep
\* the evaluation shallow)
RECURSIVE AddAll(_, _, _)
AddAll(msgs, toAdd, max) ==
    IF toAdd = <<>> THEN msgs
    ELSE IF Len(toAdd) = 1 THEN AddMsg(msgs, toAdd[1], max)
    ELSE LET half == Len(toAdd) \div 2
             first == AddAll(msgs, SubSeq(toAdd, 1, half), max)
         IN  IF Len(first) >= 0
             THEN AddAll(first, SubSeq(toAdd, half + 1, Len(toAdd)), max)
             ELSE first

\* CompressedConversation::to_conversation
ToConversation(cc) ==
    LET c0 == IF cc.system_message # <<>>
              THEN SetSystemMsgs(<<>>, cc.system_message[1].content)
              ELSE <<>>
        c1 == IF cc.compressed_history # <<>>
              THEN AddMsg(c0, MessageSystem(cc.compressed_history[1]), DefaultMaxMessages)
              ELSE c0
    IN  AddAll(c1, cc.preserved_messages, DefaultMaxMessages)

\* Conversation::to_prompt: one "Label: content" paragraph per message, then the
\* open "Assistant: " paragraph
PromptLabel(m) ==
    CASE m.role = "System" -> "System"
      [] m.role = "User" -> "User"
      [] m.role = "Assistant" -> "Assistant"
      [] m.role = "Tool" ->
           IF m.tool_name = "none" THEN "Tool (unknown)" ELSE "Tool (...)"

ToPrompt(msgs) ==
    [i \in DOMAIN msgs |-> [label |-> PromptLabel(msgs[i]), tool |-> msgs[i].tool_name,
                            content |-> msgs[i].content]]
    \o <<[label |-> "Assistant", tool |-> "none", content |-> [kind |-> "open"]]>>

\* CompressionConfig: the default, and a small budget with a short tail
DefaultCompressionConfig ==
    [threshold |-> [num |-> 1, den |-> 2], max_tokens |-> 128000, preserve_recent |-> 10]

CompressionConfigs ==
    {DefaultCompressionConfig}
    \cup [threshold: {[num |-> 1, den |-> 2]}, max_tokens: {32},
          preserve_recent: 0..MaxPreserve]

\* ContextCompressor::should_compress
ShouldCompress(msgs, cfg) ==
    EstimateTokens(msgs) > (cfg.max_tokens * cfg.threshold.num) \div cfg.threshold.den

\* Conversation::compress_with_config
CompressWithConfig(msgs, cfg) ==
    IF ShouldCompress(msgs, cfg)
    THEN ToConversation(Compress(msgs, cfg.preserve_recent))
    ELSE msgs

\* nothing has been estimated
NoEstimate == [messages |-> <<>>, total |-> -1]

\* nothing has been parsed
NoParse == [result |-> "none", calls |-> <<>>, text |-> <<>>, split_calls |-> <<>>]

SideIdle ==
    /\ token_estimate = NoEstimate
    /\ response = <<>>
    /\ parsed_response = NoParse

\* nothing has been saved or loaded, and no tool has been executed
NoFile == [kind |-> "no file"]
NotLoaded == [kind |-> "not loaded"]
NoCall == [tool |-> "none"]
NoReturn == [kind |-> "none"]
AbsentFile == <<"no such file">>

\* no call is between its mode check and its denial
DispatchIdle == mode_checked = "none"

\* find_raw_json has not been called
NoRawJson == [kind |-> "not called", json |-> <<>>]

RawIdle ==
    /\ raw_text = <<>>
    /\ raw_json = NoRawJson

\* no child has been spawned with piped output
PipeIdle ==
    /\ runner = "none"
    /\ program = <<>>
    /\ written = 0
    /\ writer = "none"
    /\ out_pipe = 0
    /\ err_pipe = 0
    /\ reader = "none"
    /\ out_read = 0
    /\ err_read = 0

\* names of skills, without the "superpowers:" prefix
SkillNames == {"brainstorm", "debug"}

NoSkill == [name |-> "none", source |-> "none", version |-> 0]

\* SkillRegistry::new
SkillIdle ==
    /\ skills = [n \in SkillNames |-> NoSkill]
    /\ superpowers_skills = [n \in SkillNames |-> NoSkill]
    /\ inserted = <<>>

MoreIdle ==
    /\ DispatchIdle
    /\ RawIdle
    /\ PipeIdle
    /\ SkillIdle

IoIdle ==
    /\ history_file = NoFile
    /\ loaded = NotLoaded
    /\ tool_call = NoCall
    /\ tool_return = NoReturn
    /\ file_content = <<>>
    /\ effects = <<>>
    /\ child = "none"
    /\ clock = 0
    /\ MoreIdle

\* no compression is under way
NoCompressed ==
    [system_message |-> <<>>, compressed_history |-> <<>>, preserved_messages |-> <<>>,
     original_message_count |-> 0, estimated_tokens_saved |-> 0]

CompressIdle ==
    /\ cPc = "none"
    /\ compression_config = [preserve_recent |-> DefaultCompressionConfig.preserve_recent]
    /\ compressed = NoCompressed
    /\ recompressed = NoCompressed

\* HistoryManager::persisted_to_message
PersistedRoles == {"system", "user", "assistant", "tool", "other"}

PersistedToMessage(p) ==
    LET role == CASE p.role = "system" -> "System"
                  [] p.role = "user" -> "User"
                  [] p.role = "assistant" -> "Assistant"
                  [] p.role = "tool" -> "Tool"
                  [] OTHER -> "User"
    IN  [role |-> role, tool_name |-> p.tool_name, content |-> p.content]

RECURSIVE PersistedToMessages(_)
PersistedToMessages(ps) ==
    IF ps = <<>> THEN <<>>
    ELSE <<PersistedToMessage(Head(ps))>> \o PersistedToMessages(Tail(ps))

\* HistoryManager::load
LoadConversation(ps) == AddAll(<<>>, PersistedToMessages(ps), DefaultMaxMessages)

\* the persisted files of the model: role strings in any order; the role
\* strings drawn reach the System arm, a non-System arm and the fallback arm
FileRoles == {"system", "tool", "other"}

PersistedFiles ==
    UNION { { [i \in 1..n |-> [role |-> f[i],
                               tool_name |-> IF f[i] = "tool" THEN "read" ELSE "none",
                               content |-> Text(i)]]
              : f \in [1..n -> FileRoles] } : n \in 0..MaxLoad }

----------------------------------------------------------------------------
\* Mode policy (agent/mode.rs)
\* a Plan list that holds every Execute tool
PLAN_TOOLS_AsExecute ==
    {"read", "write", "edit", "bash", "glob", "grep", "git_status", "git_diff",
     "git_add", "git_commit", "git_log",
     "lsp_definition", "lsp_references", "lsp_diagnostics"}

PLAN_TOOLS ==
    {"read", "glob", "grep", "git_status", "git_diff", "git_log",
     "lsp_definition", "lsp_references", "lsp_diagnostics"}

EXECUTE_TOOLS ==
    {"read", "write", "edit", "bash", "glob", "grep", "git_status", "git_diff",
     "git_add", "git_commit", "git_log",
     "lsp_definition", "lsp_references", "lsp_diagnostics"}

DANGEROUS_TOOLS == {"bash", "write", "edit", "git_commit"}

Modes == {"plan", "execute"}

\* Mode::allowed_tools
AllowedTools(m) == IF m = "plan" THEN PLAN_TOOLS ELSE EXECUTE_TOOLS

\* is_tool_allowed that forgets the mode
IsToolAllowed_AnyMode(m, tool) == tool \in EXECUTE_TOOLS

\* Mode::is_tool_allowed / ModeManager::is_tool_allowed
IsToolAllowed(m, tool) == tool \in AllowedTools(m)

\* requires_confirmation
RequiresConfirmation(tool) == tool \in DANGEROUS_TOOLS

\* confirm_tool_execution (cli/confirm.rs): the answer typed by the user decides
\* for a dangerous tool; anything but y / yes denies
ConfirmToolExecution(tool, answer) ==
    IF ~RequiresConfirmation(tool) THEN TRUE ELSE answer \in {"y", "yes"}

\* the registry built by main, and the same registry without the LSP tools
MainRegistry == EXECUTE_TOOLS
LspTools == {"lsp_definition", "lsp_references", "lsp_diagnostics"}
Registries == {MainRegistry, MainRegistry \ LspTools}

\* the model reply as a sequence of segments: prose, or one fenced tool call
ReplyTools == {"read", "write", "lsp_definition", "nope"}
Segments == {"text"} \cup ReplyTools

IsCall(seg) == seg # "text"

\* ToolCallParser::parse on a reply whose fences are whole: the calls, in order
ParseCalls(resp) == SelectSeq(resp, IsCall)

SeqsUpTo(S, n) == UNION { [1..k -> S] : k \in 0..n }

\* what Tool::execute can return: Ok(success), Ok(failure), Err
ExecuteResults == {"success", "failure", "err"}

\* contents of the messages a turn appends
Input(n) == [kind |-> "input", n |-> n]
NotAllowed(i, m) == [kind |-> "not_allowed", n |-> i, mode |-> m]
ToolOutput(r, i) ==
    [kind |-> CASE r = "success" -> "output"
                [] r = "failure" -> "failure"
                [] OTHER -> "error",
     n |-> i]
UnknownTool(i) == [kind |-> "unknown_tool", n |-> i]
Response == [kind |-> "response"]
\* the content of the final Assistant message: full_response as pushed
Transcript(pieces) == [kind |-> "transcript", pieces |-> pieces]

\* a piece pushed on full_response: the format string, the tool it names and
\* the text it carries
Piece(layout, tool, content) == [layout |-> layout, tool |-> tool, content |-> content]

IsText(seg) == seg = "text"

\* ToolCallParser::split_response(&response).0 on a reply whose fences are
\* whole: the prose segments, the fences removed
TextPart(resp) == [kind |-> "text_part", segments |-> SelectSeq(resp, IsText)]

\* response.clone(): the reply as generated, fences included
WholeResponse(resp) == [kind |-> "response_clone", segments |-> resp]

\* full_response before the tool loop, in the process variant k
InitialFullResponse(k, resp) ==
    IF k = "process_streaming_with_callback"
    THEN <<Piece("{response}", "", WholeResponse(resp))>>
    ELSE IF TextPart(resp).segments # <<>>
    THEN <<Piece("{text_part}\n\n", "", TextPart(resp))>>
    ELSE <<>>

\* the format string of the stanza pushed for a call, per branch of the loop
\* body and per process variant
StanzaLayout(k, branch) ==
    IF k = "process_streaming_with_callback"
    THEN CASE branch = "not_allowed" -> "\n[{tool}] {error_msg}"
           [] branch = "ok" -> "\n[{tool}]\n{output}"
           [] branch = "err" -> "\n[{tool}] {error}"
           [] OTHER -> "\n{error}"
    ELSE CASE branch = "not_allowed" -> "[{tool}] {error_msg}\n"
           [] branch = "ok" -> "[{tool}]\n{output}\n\n"
           [] branch = "err" -> "[{tool}] {error}\n\n"
           [] OTHER -> "{error}\n\n"

TurnIdle ==
    /\ mode = "execute"
    /\ registry = MainRegistry
    /\ pc = "idle"
    /\ kind = "none"
    /\ calls = <<>>
    /\ turnCalls = <<>>
    /\ turnPre = <<>>
    /\ executed = <<>>
    /\ prompts = <<>>
    /\ full_response = <<>>
    /\ outcome = "none"
    /\ transport = "none"

----------------------------------------------------------------------------
\* Streaming client (llm/streaming.rs)
StreamSegments == {"text", "read", "write"}

\* a line of the HTTP body: a JSON object {response, done}, or something that
\* does not parse
Lines ==
    { [valid |-> TRUE, text |-> t, done |-> d] : t \in StreamSegments, d \in BOOLEAN }
    \cup { [valid |-> FALSE, text |-> "text", done |-> FALSE] }

\* StreamChunkData built from a parsed line: stats are computed iff done
ChunkData(line) == [text |-> line.text, done |-> line.done, stats |-> line.done]

StreamIdle ==
    /\ body = <<>>
    /\ channel = <<>>
    /\ producer = "none"
    /\ accumulated = <<>>
    /\ delivered = <<>>
    /\ parsed = <<>>
    /\ httpRequests = 0

----------------------------------------------------------------------------
\* Language server driver (tools/lsp/client.rs, tools/lsp/operations.rs)
Files == {"a.rs", "b.rs"}

\* the LSP method each tool requests
LspMethod(tool) ==
    CASE tool = "lsp_definition" -> "textDocument/definition"
      [] tool = "lsp_references" -> "textDocument/references"
      [] tool = "lsp_diagnostics" -> "textDocument/diagnostic"

\* JsonRpcRequest, and the JSON object notify writes (no id)
Request(method, id, file) == [method |-> method, id |-> id, file |-> file]
Notify(method, file) == [method |-> method, id |-> 0, file |-> file]

\* frames of the server: a response carries the id of a request and a result
\* (null or a value) or an error; a notification has neither id nor result
ReplyResults == {"null", "value"}
ResultResponse(id, result) == [id |-> id, result |-> result, error |-> FALSE]
ErrorResponse(id) == [id |-> id, result |-> "absent", error |-> TRUE]
ServerNotification == [id |-> 0, result |-> "absent", error |-> FALSE]
NoFrame == [id |-> 0, result |-> "eof", error |-> FALSE]

\* request, after read_response: an error member is Err, a result member that
\* is missing or null deserializes to None and is Err, any other result is Ok
RequestOutcome(frame) ==
    IF frame.error THEN "err"
    ELSE IF frame.result = "value" THEN "ok"
    ELSE "err"

\* ids of the requests written so far
SentIds == { sent[i].id : i \in { j \in DOMAIN sent : sent[j].id > 0 } }

LspIdle ==
    /\ lsp_client = "none"
    /\ request_id = 0
    /\ sent = <<>>
    /\ pipe = <<>>
    /\ closed = FALSE
    /\ replies = {}
    /\ notified = 0
    /\ lspPc = "start"
    /\ pending = Request("none", 0, "none")
    /\ returns = <<>>
    /\ ops = 0

----------------------------------------------------------------------------
\* Retry loop of the LLM client (llm/client.rs, config.rs)

RECURSIVE Pow(_, _)
Pow(b, e) == IF e = 0 THEN 1 ELSE b * Pow(b, e - 1)

\* backoff_multiplier is an f64 read from the configuration without any check;
\* the values explored are the fractions num/den, on which f64 arithmetic is
\* exact at the sizes reached here
Multipliers ==
    { [num |-> 1, den |-> 2], [num |-> 1, den |-> 1], [num |-> 3, den |-> 2],
      [num |-> 2, den |-> 1] }

RetryConfigs ==
    [ max_retries : 0..MaxRetries,
      initial_backoff_ms : {1, 1000},
      backoff_multiplier : Multipliers,
      max_backoff_ms : {5, 10000} ]

\* calculate_backoff, in milliseconds: initial * multiplier^attempt in f64,
\* f64::min with max_backoff_ms, then `as u64`, which drops the fraction and
\* turns a negative value into 0
CalculateBackoff(cfg, i) ==
    LET num == cfg.initial_backoff_ms * Pow(cfg.backoff_multiplier.num, i)
        den == Pow(cfg.backoff_multiplier.den, i)
    IN  IF num < 0 THEN 0
        ELSE IF num >= cfg.max_backoff_ms * den THEN cfg.max_backoff_ms
        ELSE num \div den

\* what RetryableError::from_reqwest_error looks at in a reqwest::Error
ReqwestErrors ==
    { [is_connect |-> TRUE, is_timeout |-> FALSE, status |-> "none", is_request |-> FALSE],
      [is_connect |-> FALSE, is_timeout |-> TRUE, status |-> "none", is_request |-> FALSE],
      [is_connect |-> FALSE, is_timeout |-> FALSE, status |-> "5xx", is_request |-> FALSE],
      [is_connect |-> FALSE, is_timeout |-> FALSE, status |-> "4xx", is_request |-> FALSE],
      [is_connect |-> FALSE, is_timeout |-> FALSE, status |-> "none", is_request |-> TRUE],
      [is_connect |-> FALSE, is_timeout |-> FALSE, status |-> "none", is_request |-> FALSE] }

NoError == [is_connect |-> FALSE, is_timeout |-> FALSE, status |-> "ok", is_request |-> FALSE]

FromReqwestError(error) ==
    IF error.is_connect THEN "Connection"
    ELSE IF error.is_timeout THEN "Timeout"
    ELSE IF error.status # "none"
         THEN IF error.status = "5xx" THEN "ServerError" ELSE "NonRetryable"
    ELSE IF error.is_request THEN "Connection"
    ELSE "NonRetryable"

\* every error counts as retryable
IsRetryable_Always(error_type) == TRUE

IsRetryable(error_type) == error_type \in {"Connection", "Timeout", "ServerError"}

\* results of one call of operation()
OperationResults ==
    { [ok |-> TRUE, error |-> NoError] }
    \cup { [ok |-> FALSE, error |-> err] : err \in ReqwestErrors }

NoResult == [kind |-> "none", body |-> 0, error |-> NoError, retries |-> 0]

RetryIdle ==
    /\ retry_config = [max_retries |-> 3, initial_backoff_ms |-> 1000,
                       backoff_multiplier |-> [num |-> 2, den |-> 1],
                       max_backoff_ms |-> 10000]
    /\ attempt = 0
    /\ rPc = "call"
    /\ attempts = <<>>
    /\ sleeps = <<>>
    /\ retResult = NoResult

----------------------------------------------------------------------------
\* Self-verification of generated code (main.rs 356-445, agent/verification.rs)

\* CodeVerifier::new
MaxAttempts == 3

\* a fenced block of a message: the tag on its opening fence ("" when there is
\* none), the language infer_language finds for an untagged block ("" when
\* none), whether the fences are written exactly as ```tag\ncode\n``` (no
\* indentation, no blank after the backticks, \n line ends), and the code
Blocks(n) ==
    { [tag |-> "python", inferred |-> "", exact |-> TRUE, code |-> [orig |-> n]],
      [tag |-> "python", inferred |-> "", exact |-> FALSE, code |-> [orig |-> n]],
      [tag |-> "", inferred |-> "python", exact |-> TRUE, code |-> [orig |-> n]],
      [tag |-> "", inferred |-> "", exact |-> TRUE, code |-> [orig |-> n]] }

\* the messages explored: their code blocks, in order
BlockSeqs ==
    UNION { { bs \in [1..k -> UNION { Blocks(n) : n \in 1..k }] :
                \A i \in 1..k : bs[i] \in Blocks(i) } : k \in 1..MaxBlocks }

\* CodeVerifier::extract_code_blocks: the trimmed tag, or the inferred language
ExtractCodeBlocks(blocks) ==
    [i \in DOMAIN blocks |->
        [lang |-> IF blocks[i].tag # "" THEN blocks[i].tag ELSE blocks[i].inferred,
         code |-> blocks[i].code]]

\* replace_code_block: the text ```lang\nold\n``` or ```\nold\n``` is looked up
\* literally and replaced; a block written otherwise is left as it is
ReplaceCodeBlock(content, old_code, new_code, lang) ==
    [i \in DOMAIN content |->
        IF /\ content[i].code = old_code
           /\ content[i].exact
           /\ content[i].tag \in {lang, ""}
        THEN [content[i] EXCEPT !.tag = lang, !.code = new_code]
        ELSE content[i]]

\* what verifier.verify returns: Ok(success), Ok(failure) or Err
VerifyOutcomes == {"success", "failure", "err"}

\* what agent.process gives for a fix prompt: Err, or a reply that after
\* post-processing is empty, is text without a fence, has a first fenced block
\* that is empty, or has a first fenced block with code
FixReplies == {"agent_err", "empty", "text", "fenced_empty", "fenced"}

FixedCode(b, n) == [block |-> b, fix |-> n]
FixPrompt(code) == [kind |-> "fix_prompt", code |-> code]
FixReply(code) == [kind |-> "fix_reply", code |-> code]
Reply(blocks) == [kind |-> "reply", blocks |-> blocks]
NoCode == [orig |-> 0]

FixIdle ==
    /\ fPc = "done"
    /\ processed_text = <<>>
    /\ code_blocks = <<>>
    /\ blockIdx = 1
    /\ fix_attempts = 0
    /\ current_code = NoCode
    /\ fixRequests = 0
    /\ verifyCalls = 0
    /\ verifyLog = <<>>

----------------------------------------------------------------------------
\* Conversation operations as actions

\* the effect of Conversation::add(m) on the state, with the overflow of the build
ConvAdd(m) ==
    LET pushed == Append(messages, m)
    IN  /\ preTrunc' = pushed
        /\ IF overflow_checks /\ TruncateOverflows(pushed, max_messages)
           THEN /\ messages' = pushed
                /\ panicked' = TRUE
                /\ truncated' = FALSE
           ELSE /\ messages' = TruncateIfNeeded(pushed, max_messages)
                /\ panicked' = panicked
                /\ truncated' = (Len(pushed) > max_messages)

SetSystem ==
    /\ ~panicked
    /\ nextId <= MaxIds
    /\ messages' = SetSystemMsgs(messages, Text(nextId))
    /\ nextId' = nextId + 1
    /\ lastOp' = "set_system"
    /\ preTrunc' = messages
    /\ truncated' = FALSE
    /\ UNCHANGED <<max_messages, overflow_checks, panicked>>
    /\ UNCHANGED notConv

Add ==
    /\ ~panicked
    /\ nextId <= MaxIds
    /\ \E r \in Roles : ConvAdd(MessageOfRole(r, Text(nextId)))
    /\ nextId' = nextId + 1
    /\ lastOp' = "add"
    /\ UNCHANGED <<max_messages, overflow_checks>>
    /\ UNCHANGED notConv

AddUser ==
    /\ ~panicked
    /\ nextId <= MaxIds
    /\ ConvAdd(MessageUser(Text(nextId)))
    /\ nextId' = nextId + 1
    /\ lastOp' = "add"
    /\ UNCHANGED <<max_messages, overflow_checks>>
    /\ UNCHANGED notConv

AddAssistant ==
    /\ ~panicked
    /\ nextId <= MaxIds
    /\ ConvAdd(MessageAssistant(Text(nextId)))
    /\ nextId' = nextId + 1
    /\ lastOp' = "add"
    /\ UNCHANGED <<max_messages, overflow_checks>>
    /\ UNCHANGED notConv

AddToolResult ==
    /\ ~panicked
    /\ nextId <= MaxIds
    /\ ConvAdd(MessageTool("read", Text(nextId)))
    /\ nextId' = nextId + 1
    /\ lastOp' = "add"
    /\ UNCHANGED <<max_messages, overflow_checks>>
    /\ UNCHANGED notConv

Clear ==
    /\ ~panicked
    /\ messages' = ClearMsgs(messages)
    /\ lastOp' = "clear"
    /\ preTrunc' = messages
    /\ truncated' = FALSE
    /\ UNCHANGED <<max_messages, overflow_checks, panicked, nextId>>
    /\ UNCHANGED notConv

SetMaxMessages ==
    /\ ~panicked
    /\ \E max \in 0..MaxMax :
        /\ max_messages' = max
        /\ preTrunc' = messages
        /\ IF overflow_checks /\ TruncateOverflows(messages, max)
           THEN /\ messages' = messages
                /\ panicked' = TRUE
                /\ truncated' = FALSE
           ELSE /\ messages' = TruncateIfNeeded(messages, max)
                /\ panicked' = panicked
                /\ truncated' = (Len(messages) > max)
    /\ lastOp' = "set_max_messages"
    /\ UNCHANGED <<overflow_checks, nextId>>
    /\ UNCHANGED notConv

\* Conversation::compress_with_config past its should_compress test:
\* compressor.compress(self).to_conversation()
CompressToConversation ==
    /\ ~panicked
    /\ \E k \in 0..MaxPreserve :
        messages' = ToConversation(Compress(messages, k))
    /\ max_messages' = DefaultMaxMessages
    /\ lastOp' = "to_conversation"
    /\ preTrunc' = messages
    /\ truncated' = FALSE
    /\ UNCHANGED <<overflow_checks, panicked, nextId>>
    /\ UNCHANGED notConv

\* the conversation each persisted file loads as, with its number of entries
LoadedFiles ==
    { [conversation |-> LoadConversation(ps), entries |-> Len(ps)] : ps \in PersistedFiles }

\* HistoryManager::load of a persisted file
Load ==
    /\ ~panicked
    /\ \E ld \in LoadedFiles :
        /\ messages' = ld.conversation
        /\ nextId' = ld.entries + 1
    /\ max_messages' = DefaultMaxMessages
    /\ lastOp' = "load"
    /\ preTrunc' = messages
    /\ truncated' = FALSE
    /\ UNCHANGED <<overflow_checks, panicked>>
    /\ UNCHANGED notConv

InitConv ==
    /\ messages = <<>>
    /\ max_messages \in 0..MaxMax
    /\ overflow_checks \in BOOLEAN
    /\ panicked = FALSE
    /\ lastOp = "new"
    /\ preTrunc = <<>>
    /\ truncated = FALSE
    /\ nextId = 1
    /\ TurnIdle
    /\ StreamIdle
    /\ LspIdle
    /\ RetryIdle
    /\ FixIdle
    /\ prompt = <<>>
    /\ CompressIdle
    /\ SideIdle
    /\ IoIdle

NextConv ==
    \/ SetSystem
    \/ Add
    \/ AddUser
    \/ AddAssistant
    \/ AddToolResult
    \/ Clear
    \/ SetMaxMessages
    \/ CompressToConversation
    \/ Load

SpecConv == InitConv /\ [][NextConv]_vars

----------------------------------------------------------------------------
\* The Agent turn (agent/core.rs): one call of process or process_streaming, on
\* the conversation, the mode and the registry that Init draws

\* the beginning of Agent::process: add_user, then the request to the LLM
StartTurn ==
    /\ ~panicked
    /\ pc = "idle"
    /\ ConvAdd(MessageUser(Input(1)))
    /\ lastOp' = "add"
    /\ turnPre' = messages
    /\ pc' = "llm"
    /\ kind' = "process"
    /\ calls' = <<>>
    /\ turnCalls' = <<>>
    /\ executed' = <<>>
    /\ outcome' = "none"
    /\ transport' = "none"
    /\ UNCHANGED <<max_messages, overflow_checks, nextId, mode, registry, prompts, full_response>>
    /\ prompt' = ToPrompt(messages')
    /\ UNCHANGED <<streamVars, lspVars, retryVars, fixVars, compressVars, sideVars, ioVars>>

\* the rest of a turn once the reply text is known: parse, then either the
\* text answer or the start of the tool loop
AfterReply(resp) ==
    LET tool_calls == ParseCalls(resp)
    IN  IF tool_calls = <<>>
        THEN /\ ConvAdd(MessageAssistant(Response))
             /\ lastOp' = "add"
             /\ pc' = "done"
             /\ outcome' = "ok"
             /\ UNCHANGED <<calls, turnCalls, full_response>>
        ELSE /\ pc' = "tools"
             /\ calls' = tool_calls
             /\ turnCalls' = tool_calls
             /\ full_response' = InitialFullResponse(kind, resp)
             /\ UNCHANGED <<messages, panicked, preTrunc, truncated, lastOp, outcome>>

\* llm.generate returned Ok(response), the response being one of responses
LlmReplyFrom(responses) ==
    /\ ~panicked
    /\ pc = "llm"
    /\ \E resp \in responses : AfterReply(resp)
    /\ UNCHANGED <<max_messages, overflow_checks, nextId, mode, registry, kind,
                   turnPre, executed, prompts, transport>>
    /\ UNCHANGED <<streamVars, lspVars, lateVars>>

LlmReply == LlmReplyFrom(SeqsUpTo(Segments, MaxCalls))

\* llm.generate returned Err: the `?` leaves process
LlmError ==
    /\ ~panicked
    /\ pc = "llm"
    /\ pc' = "done"
    /\ outcome' = "err"
    /\ transport' = "generate"
    /\ UNCHANGED <<convVars, histVars, mode, registry, kind, calls, turnCalls,
                   turnPre, executed, prompts, full_response>>
    /\ UNCHANGED <<streamVars, lspVars, lateVars>>

\* a loop body that looks the tool up before it asks the mode
ToolCallBody_LookupFirst(call, i) ==
    IF call \notin registry
    THEN /\ ConvAdd(MessageTool(call, UnknownTool(i)))
         /\ executed' = executed
         /\ full_response' = Append(full_response,
                Piece(StanzaLayout(kind, "unknown"), "", UnknownTool(i)))
    ELSE IF ~IsToolAllowed(mode, call)
    THEN /\ ConvAdd(MessageTool(call, NotAllowed(i, mode)))
         /\ executed' = executed
         /\ full_response' = Append(full_response,
                Piece(StanzaLayout(kind, "not_allowed"), call, NotAllowed(i, mode)))
    ELSE \E r \in ExecuteResults :
           /\ ConvAdd(MessageTool(call, ToolOutput(r, i)))
           /\ executed' = Append(executed, [n |-> i, tool |-> call, mode |-> mode])
           /\ full_response' = Append(full_response,
                  Piece(StanzaLayout(kind, IF r = "err" THEN "err" ELSE "ok"),
                        call, ToolOutput(r, i)))

\* the body of `for call in tool_calls` for the call at position i of the reply
ToolCallBody(call, i) ==
    IF ~IsToolAllowed(mode, call)
    THEN /\ ConvAdd(MessageTool(call, NotAllowed(i, mode)))
         /\ executed' = executed
         /\ full_response' = Append(full_response,
                Piece(StanzaLayout(kind, "not_allowed"), call, NotAllowed(i, mode)))
    ELSE IF call \in registry
    THEN \E r \in ExecuteResults :
           /\ ConvAdd(MessageTool(call, ToolOutput(r, i)))
           /\ executed' = Append(executed, [n |-> i, tool |-> call, mode |-> mode])
           /\ full_response' = Append(full_response,
                  Piece(StanzaLayout(kind, IF r = "err" THEN "err" ELSE "ok"),
                        call, ToolOutput(r, i)))
    ELSE /\ ConvAdd(MessageTool(call, UnknownTool(i)))
         /\ executed' = executed
         /\ full_response' = Append(full_response,
                Piece(StanzaLayout(kind, "unknown"), "", UnknownTool(i)))

\* the tool loop taking the calls from the back of the reply
ToolStep_LastFirst ==
    /\ ~panicked
    /\ pc = "tools"
    /\ calls # <<>>
    /\ ToolCallBody(calls[Len(calls)], Len(calls))
    /\ calls' = SubSeq(calls, 1, Len(calls) - 1)
    /\ lastOp' = "add"
    /\ UNCHANGED <<max_messages, overflow_checks, nextId, mode, registry, pc, kind,
                   turnCalls, turnPre, prompts, outcome, transport>>
    /\ UNCHANGED <<streamVars, lspVars, lateVars>>

\* one iteration of `for call in tool_calls`
ToolStep ==
    /\ ~panicked
    /\ pc = "tools"
    /\ calls # <<>>
    /\ ToolCallBody(Head(calls), Len(turnCalls) - Len(calls) + 1)
    /\ calls' = Tail(calls)
    /\ lastOp' = "add"
    /\ UNCHANGED <<max_messages, overflow_checks, nextId, mode, registry, pc, kind,
                   turnCalls, turnPre, prompts, outcome, transport>>
    /\ UNCHANGED <<streamVars, lspVars, lateVars>>

\* after the loop: add_assistant(full_response), Ok(full_response)
FinishTurn ==
    /\ ~panicked
    /\ pc = "tools"
    /\ calls = <<>>
    /\ ConvAdd(MessageAssistant(Transcript(full_response)))
    /\ lastOp' = "add"
    /\ pc' = "done"
    /\ outcome' = "ok"
    /\ UNCHANGED <<max_messages, overflow_checks, nextId, mode, registry, kind, calls,
                   turnCalls, turnPre, executed, prompts, full_response, transport>>
    /\ UNCHANGED <<streamVars, lspVars, lateVars>>

\* CommandHandler::handle of /plan and /execute, before the turn
SetMode ==
    /\ ~panicked
    /\ pc = "idle"
    /\ \E m \in Modes : m # mode /\ mode' = m
    /\ UNCHANGED <<convVars, histVars, registry, pc, kind, calls, turnCalls, turnPre,
                   executed, prompts, full_response, outcome, transport>>
    /\ UNCHANGED <<streamVars, lspVars, lateVars>>

\* the beginning of Agent::process_streaming and of
\* Agent::process_streaming_with_callback: add_user, then the POST
StartStreamingTurn ==
    /\ ~panicked
    /\ pc = "idle"
    /\ ConvAdd(MessageUser(Input(1)))
    /\ lastOp' = "add"
    /\ turnPre' = messages
    /\ pc' = "connect"
    /\ kind' \in {"process_streaming", "process_streaming_with_callback"}
    /\ calls' = <<>>
    /\ turnCalls' = <<>>
    /\ executed' = <<>>
    /\ outcome' = "none"
    /\ transport' = "none"
    /\ body' = <<>>
    /\ channel' = <<>>
    /\ producer' = "none"
    /\ accumulated' = <<>>
    /\ delivered' = <<>>
    /\ parsed' = <<>>
    /\ httpRequests' = 0
    /\ UNCHANGED <<max_messages, overflow_checks, nextId, mode, registry, prompts, full_response>>
    /\ prompt' = ToPrompt(messages')
    /\ UNCHANGED <<lspVars, retryVars, fixVars, compressVars, sideVars, ioVars>>

\* generate_streaming: send() fails; the `?` leaves process_streaming
ConnectFail ==
    /\ ~panicked
    /\ pc = "connect"
    /\ pc' = "done"
    /\ outcome' = "err"
    /\ transport' = "connect"
    /\ httpRequests' = httpRequests + 1
    /\ UNCHANGED <<body, channel, producer, accumulated, delivered, parsed>>
    /\ UNCHANGED <<convVars, histVars, mode, registry, kind, calls, turnCalls,
                   turnPre, executed, prompts, full_response>>
    /\ UNCHANGED <<lspVars, lateVars>>

\* a non-2xx status that is answered by sending the request again
StatusError_Retry ==
    /\ ~panicked
    /\ pc = "connect"
    /\ httpRequests' = httpRequests + 1
    /\ UNCHANGED <<body, channel, producer, accumulated, delivered, parsed>>
    /\ UNCHANGED <<convVars, histVars, turnVars>>
    /\ UNCHANGED <<lspVars, lateVars>>

\* generate_streaming: the status is not 2xx; Err, no StreamingResponse
StatusError ==
    /\ ~panicked
    /\ pc = "connect"
    /\ pc' = "done"
    /\ outcome' = "err"
    /\ transport' = "status"
    /\ httpRequests' = httpRequests + 1
    /\ UNCHANGED <<body, channel, producer, accumulated, delivered, parsed>>
    /\ UNCHANGED <<convVars, histVars, mode, registry, kind, calls, turnCalls,
                   turnPre, executed, prompts, full_response>>
    /\ UNCHANGED <<lspVars, lateVars>>

\* generate_streaming: 2xx; the producer task is spawned on the body stream
ConnectOk ==
    /\ ~panicked
    /\ pc = "connect"
    /\ \E b \in SeqsUpTo(Lines, MaxBody) : body' = b
    /\ producer' = "running"
    /\ pc' = "streaming"
    /\ httpRequests' = httpRequests + 1
    /\ UNCHANGED <<channel, accumulated, delivered, parsed>>
    /\ UNCHANGED <<convVars, histVars, mode, registry, kind, calls, turnCalls,
                   turnPre, executed, prompts, full_response, outcome, transport>>
    /\ UNCHANGED <<lspVars, lateVars>>

\* a producer task that goes on after a done line
ProducerLine_KeepsRunning ==
    /\ producer = "running"
    /\ body # <<>>
    /\ Len(channel) < ChannelCapacity
    /\ LET line == Head(body)
       IN  IF ~line.valid
           THEN UNCHANGED <<channel, producer, parsed>>
           ELSE /\ channel' = Append(channel, ChunkData(line))
                /\ parsed' = Append(parsed, ChunkData(line))
                /\ producer' = "running"
    /\ body' = Tail(body)
    /\ UNCHANGED <<accumulated, delivered, httpRequests>>
    /\ UNCHANGED <<convVars, histVars, turnVars, lspVars, lateVars>>

\* the producer task on the next line of the body: a line that does not parse
\* is dropped, a parsed one is sent, and a done line ends the task
ProducerLine ==
    /\ producer = "running"
    /\ body # <<>>
    /\ Len(channel) < ChannelCapacity
    /\ LET line == Head(body)
       IN  IF ~line.valid
           THEN UNCHANGED <<channel, producer, parsed>>
           ELSE /\ channel' = Append(channel, ChunkData(line))
                /\ parsed' = Append(parsed, ChunkData(line))
                /\ producer' = IF line.done THEN "closed" ELSE "running"
    /\ body' = Tail(body)
    /\ UNCHANGED <<accumulated, delivered, httpRequests>>
    /\ UNCHANGED <<convVars, histVars, turnVars, lspVars, lateVars>>

\* the producer task when the body stream yields Err: break
ProducerError ==
    /\ producer = "running"
    /\ producer' = "closed"
    /\ transport' = "midstream"
    /\ UNCHANGED <<body, channel, accumulated, delivered, parsed, httpRequests>>
    /\ UNCHANGED <<convVars, histVars, mode, registry, pc, kind, calls, turnCalls,
                   turnPre, executed, prompts, full_response, outcome>>
    /\ UNCHANGED <<lspVars, lateVars>>

\* the producer task when the body stream ends
ProducerEof ==
    /\ producer = "running"
    /\ body = <<>>
    /\ producer' = "closed"
    /\ UNCHANGED <<body, channel, accumulated, delivered, parsed, httpRequests>>
    /\ UNCHANGED <<convVars, histVars, turnVars, lspVars, lateVars>>

\* a next that hands out the newest chunk of the channel
ConsumerNext_Newest ==
    /\ ~panicked
    /\ pc = "streaming"
    /\ channel # <<>>
    /\ accumulated' = Append(accumulated, channel[Len(channel)].text)
    /\ delivered' = Append(delivered, channel[Len(channel)])
    /\ channel' = Take(channel, Len(channel) - 1)
    /\ UNCHANGED <<body, producer, parsed, httpRequests>>
    /\ UNCHANGED <<convVars, histVars, turnVars, lspVars, lateVars>>

\* StreamingResponse::next returning Some(chunk)
ConsumerNext ==
    /\ ~panicked
    /\ pc = "streaming"
    /\ channel # <<>>
    /\ accumulated' = Append(accumulated, Head(channel).text)
    /\ delivered' = Append(delivered, Head(channel))
    /\ channel' = Tail(channel)
    /\ UNCHANGED <<body, producer, parsed, httpRequests>>
    /\ UNCHANGED <<convVars, histVars, turnVars, lspVars, lateVars>>

\* StreamingResponse::next returning None, and process_streaming after its loop
ConsumerEnd ==
    /\ ~panicked
    /\ pc = "streaming"
    /\ channel = <<>>
    /\ producer = "closed"
    /\ AfterReply(accumulated)
    /\ UNCHANGED <<max_messages, overflow_checks, nextId, mode, registry, kind,
                   turnPre, executed, prompts, transport>>
    /\ UNCHANGED <<streamVars, lspVars, lateVars>>

InitTurn ==
    /\ messages \in {<<>>, <<MessageSystem(Text(0))>>,
                    <<MessageSystem(Text(0)), MessageUser(Input(0)),
                      MessageAssistant(Response)>>}
    /\ max_messages \in {SmallMaxMessages, DefaultMaxMessages}
    /\ overflow_checks = TRUE
    /\ panicked = FALSE
    /\ lastOp = "new"
    /\ preTrunc = <<>>
    /\ truncated = FALSE
    /\ nextId = 1
    /\ mode \in Modes
    /\ registry \in Registries
    /\ pc = "idle"
    /\ kind = "none"
    /\ calls = <<>>
    /\ turnCalls = <<>>
    /\ turnPre = <<>>
    /\ executed = <<>>
    /\ prompts = <<>>
    /\ full_response = <<>>
    /\ outcome = "none"
    /\ transport = "none"
    /\ StreamIdle
    /\ LspIdle
    /\ RetryIdle
    /\ FixIdle
    /\ prompt = <<>>
    /\ CompressIdle
    /\ SideIdle
    /\ IoIdle

NextTurn ==
    \/ StartTurn
    \/ LlmReply
    \/ LlmError
    \/ ToolStep
    \/ FinishTurn
    \/ SetMode
    \/ StartStreamingTurn
    \/ ConnectFail
    \/ StatusError
    \/ ConnectOk
    \/ ProducerLine
    \/ ProducerError
    \/ ProducerEof
    \/ ConsumerNext
    \/ ConsumerEnd

SpecTurn == InitTurn /\ [][NextTurn]_vars

\* ---- a turn of an Agent built on a registry that holds a tool of its own ----
\* Agent::new takes any ToolRegistry; "deploy" is a tool registered by the
\* embedding program, a name that neither mode list holds
OwnTool == "deploy"
OwnRegistries == {MainRegistry \cup {OwnTool}, (MainRegistry \ LspTools) \cup {OwnTool}}
OwnSegments == {"text", "read", "write", "lsp_definition", "nope", OwnTool}

LlmReplyOwn == LlmReplyFrom(SeqsUpTo(OwnSegments, MaxCalls))

InitRegistry ==
    /\ messages \in {<<>>, <<MessageSystem(Text(0))>>}
    /\ max_messages = DefaultMaxMessages
    /\ overflow_checks = TRUE
    /\ panicked = FALSE
    /\ lastOp = "new"
    /\ preTrunc = <<>>
    /\ truncated = FALSE
    /\ nextId = 1
    /\ mode \in Modes
    /\ registry \in OwnRegistries
    /\ pc = "idle"
    /\ kind = "none"
    /\ calls = <<>>
    /\ turnCalls = <<>>
    /\ turnPre = <<>>
    /\ executed = <<>>
    /\ prompts = <<>>
    /\ full_response = <<>>
    /\ outcome = "none"
    /\ transport = "none"
    /\ StreamIdle
    /\ LspIdle
    /\ RetryIdle
    /\ FixIdle
    /\ prompt = <<>>
    /\ CompressIdle
    /\ SideIdle
    /\ IoIdle

NextRegistry ==
    \/ SetMode
    \/ StartTurn
    \/ LlmReplyOwn
    \/ LlmError
    \/ ToolStep
    \/ FinishTurn

SpecRegistry == InitRegistry /\ [][NextRegistry]_vars

\* the producer task and the consumer loop are scheduled while they can run
SpecTurnFair ==
    /\ SpecTurn
    /\ WF_vars(ProducerLine)
    /\ WF_vars(ProducerEof)
    /\ WF_vars(ConsumerNext)
    /\ WF_vars(ConsumerEnd)

----------------------------------------------------------------------------
\* The language server driver, as main.rs and the LSP tools drive it

\* main.rs 222-241 without a server: no command is configured, or
\* LspClient::start fails; lsp_client stays None
NoLspServer ==
    /\ lspPc = "start"
    /\ lspPc' = "repl"
    /\ UNCHANGED <<lsp_client, request_id, sent, pipe, closed, replies, notified,
                   pending, returns, ops>>
    /\ UNCHANGED notLsp

\* LspClient::request up to its read_response: the next id is taken and the
\* frame is written, after the notifications the caller wrote before it
SendRequest(method, file, before) ==
    /\ request_id' = request_id + 1
    /\ sent' = sent \o before \o <<Request(method, request_id + 1, file)>>
    /\ pending' = Request(method, request_id + 1, file)
    /\ lspPc' = "read"

\* main.rs 225-227: the server is started and LspClient::initialize sends its
\* request
Initialize ==
    /\ lspPc = "start"
    /\ SendRequest("initialize", "none", <<>>)
    /\ UNCHANGED <<lsp_client, pipe, closed, replies, notified, returns, ops>>
    /\ UNCHANGED notLsp

\* the rest of request and of its caller once read_response returned frame:
\* initialize sends `initialized` and main installs the client only on Ok,
\* shutdown sends `exit` only on Ok, a tool turns the result into a ToolResult
AfterRead(frame) ==
    LET res == RequestOutcome(frame) IN
    /\ returns' = Append(returns, [method |-> pending.method, id |-> pending.id,
                                   frame |-> frame, outcome |-> res,
                                   at |-> Len(sent)])
    /\ pending' = Request("none", 0, "none")
    /\ CASE pending.method = "initialize" ->
              /\ lspPc' = "repl"
              /\ IF res = "ok"
                 THEN /\ sent' = Append(sent, Notify("initialized", "none"))
                      /\ lsp_client' = "some"
                 ELSE UNCHANGED <<sent, lsp_client>>
         [] pending.method = "shutdown" ->
              /\ lspPc' = "exited"
              /\ sent' = IF res = "ok" THEN Append(sent, Notify("exit", "none"))
                                       ELSE sent
              /\ UNCHANGED lsp_client
         [] OTHER ->
              /\ lspPc' = "repl"
              /\ UNCHANGED <<sent, lsp_client>>

\* read_response: the next frame of the server's stdout, whatever its id; the
\* BufReader made for this call is dropped with the bytes it buffered, so
\* frames that were already in the pipe behind it can be lost
ReadResponse ==
    /\ lspPc = "read"
    /\ pipe # <<>>
    /\ \E lost \in 0..(Len(pipe) - 1) : pipe' = Skip(Tail(pipe), lost)
    /\ AfterRead(Head(pipe))
    /\ UNCHANGED <<request_id, closed, replies, notified, ops>>
    /\ UNCHANGED notLsp

\* read_response on a closed stdout: Err("LSP response EOF")
ReadEof ==
    /\ lspPc = "read"
    /\ pipe = <<>>
    /\ closed
    /\ AfterRead(NoFrame)
    /\ UNCHANGED <<request_id, pipe, closed, replies, notified, ops>>
    /\ UNCHANGED notLsp

\* the same tool without its did_open
ToolExecute_NoDidOpen(tool, file) ==
    /\ lspPc = "repl"
    /\ ops < MaxLspOps
    /\ ops' = ops + 1
    /\ \/ /\ lsp_client = "some"
          /\ SendRequest(LspMethod(tool), file, <<>>)
       \/ UNCHANGED <<request_id, sent, pending, lspPc>>
    /\ UNCHANGED <<lsp_client, pipe, closed, replies, notified, returns>>
    /\ UNCHANGED notLsp

\* LspDefinitionTool, LspReferencesTool, LspDiagnosticsTool::execute: with a
\* client, did_open then the request; without one, or when did_open fails
\* (path not absolute, file unreadable), Err and nothing is written
ToolExecute(tool, file) ==
    /\ lspPc = "repl"
    /\ ops < MaxLspOps
    /\ ops' = ops + 1
    /\ \/ /\ lsp_client = "some"
          /\ SendRequest(LspMethod(tool), file,
                         <<Notify("textDocument/didOpen", file)>>)
       \/ UNCHANGED <<request_id, sent, pending, lspPc>>
    /\ UNCHANGED <<lsp_client, pipe, closed, replies, notified, returns>>
    /\ UNCHANGED notLsp

LspToolCall == \E tool \in LspTools, file \in Files : ToolExecute(tool, file)

\* main.rs 509-514: the client is taken out of lsp_client and shut down
Shutdown ==
    /\ lspPc = "repl"
    /\ IF lsp_client = "some"
       THEN /\ lsp_client' = "taken"
            /\ SendRequest("shutdown", "none", <<>>)
       ELSE /\ lspPc' = "exited"
            /\ UNCHANGED <<lsp_client, request_id, sent, pending>>
    /\ UNCHANGED <<pipe, closed, replies, notified, returns, ops>>
    /\ UNCHANGED notLsp

\* the language server answers a request it has not answered yet
ServerReply ==
    /\ ~closed
    /\ \E id \in SentIds \ { r.id : r \in replies } :
         \E f \in { ResultResponse(id, r) : r \in ReplyResults }
                  \cup { ErrorResponse(id) } :
            /\ pipe' = Append(pipe, f)
            /\ replies' = replies \cup {f}
    /\ UNCHANGED <<lsp_client, request_id, sent, closed, notified, lspPc, pending,
                   returns, ops>>
    /\ UNCHANGED notLsp

\* the language server emits a notification (publishDiagnostics, progress, log)
ServerNotify ==
    /\ ~closed
    /\ sent # <<>>
    /\ notified < MaxNotifications
    /\ notified' = notified + 1
    /\ pipe' = Append(pipe, ServerNotification)
    /\ UNCHANGED <<lsp_client, request_id, sent, closed, replies, lspPc, pending,
                   returns, ops>>
    /\ UNCHANGED notLsp

\* the language server closes its stdout
ServerClose ==
    /\ ~closed
    /\ sent # <<>>
    /\ closed' = TRUE
    /\ UNCHANGED <<lsp_client, request_id, sent, pipe, replies, notified, lspPc,
                   pending, returns, ops>>
    /\ UNCHANGED notLsp

InitLsp ==
    /\ messages = <<>>
    /\ max_messages = DefaultMaxMessages
    /\ overflow_checks = TRUE
    /\ panicked = FALSE
    /\ lastOp = "new"
    /\ preTrunc = <<>>
    /\ truncated = FALSE
    /\ nextId = 1
    /\ TurnIdle
    /\ StreamIdle
    /\ LspIdle
    /\ RetryIdle
    /\ FixIdle
    /\ prompt = <<>>
    /\ CompressIdle
    /\ SideIdle
    /\ IoIdle

NextLsp ==
    \/ NoLspServer
    \/ Initialize
    \/ ReadResponse
    \/ ReadEof
    \/ LspToolCall
    \/ Shutdown
    \/ ServerReply
    \/ ServerNotify
    \/ ServerClose

SpecLsp == InitLsp /\ [][NextLsp]_vars

\* the program's own steps are taken when they stay possible; the server is
\* under no obligation
SpecLspFair == SpecLsp /\ WF_vars(ReadResponse) /\ WF_vars(ReadEof)

----------------------------------------------------------------------------
\* send_with_retry (llm/client.rs 158-200)

notRetry == <<convVars, histVars, turnVars, streamVars, lspVars, fixVars, prompt,
              compressVars, sideVars, ioVars>>

\* one iteration of the loop: operation() is awaited; Ok returns its result,
\* an error that is not retryable or comes at attempt max_retries returns Err
\* with the attempt number, any other error sleeps calculate_backoff(attempt)
Attempt ==
    /\ rPc = "call"
    /\ \E r \in OperationResults :
         /\ attempts' = Append(attempts, r)
         /\ IF r.ok
            THEN /\ rPc' = "done"
                 /\ retResult' = [kind |-> "ok", body |-> Len(attempts) + 1,
                                  error |-> NoError, retries |-> attempt]
                 /\ UNCHANGED <<attempt, sleeps>>
            ELSE IF \/ ~IsRetryable(FromReqwestError(r.error))
                    \/ attempt >= retry_config.max_retries
            THEN /\ rPc' = "done"
                 /\ retResult' = [kind |-> "err", body |-> 0, error |-> r.error,
                                  retries |-> attempt]
                 /\ UNCHANGED <<attempt, sleeps>>
            ELSE /\ sleeps' = Append(sleeps, CalculateBackoff(retry_config, attempt))
                 /\ attempt' = attempt + 1
                 /\ UNCHANGED <<rPc, retResult>>
    /\ UNCHANGED retry_config
    /\ UNCHANGED notRetry

InitRetry ==
    /\ messages = <<>>
    /\ max_messages = DefaultMaxMessages
    /\ overflow_checks = TRUE
    /\ panicked = FALSE
    /\ lastOp = "new"
    /\ preTrunc = <<>>
    /\ truncated = FALSE
    /\ nextId = 1
    /\ TurnIdle
    /\ StreamIdle
    /\ LspIdle
    /\ FixIdle
    /\ prompt = <<>>
    /\ CompressIdle
    /\ SideIdle
    /\ IoIdle
    /\ retry_config \in RetryConfigs
    /\ attempt = 0
    /\ rPc = "call"
    /\ attempts = <<>>
    /\ sleeps = <<>>
    /\ retResult = NoResult

NextRetry == Attempt

SpecRetry == InitRetry /\ [][NextRetry]_vars

----------------------------------------------------------------------------
\* The self-verification loop the REPL runs on a reply (main.rs 356-445)

notFix == <<max_messages, overflow_checks, panicked, histVars, turnVars, streamVars,
            lspVars, retryVars, compressVars, sideVars, ioVars>>

\* the for loop moves to the next block
NextBlock ==
    /\ fPc' = "block"
    /\ blockIdx' = blockIdx + 1

\* top of the for loop: a block without language is skipped, any other is
\* verified; a verified block and a verification error move on, a failing block
\* enters the while loop with attempts = 0 and current_code = code
VerifyBlock ==
    /\ fPc = "block"
    /\ blockIdx <= Len(code_blocks)
    /\ LET blk == code_blocks[blockIdx] IN
         IF blk.lang = ""
         THEN /\ NextBlock
              /\ UNCHANGED <<fix_attempts, current_code, fixRequests, verifyCalls,
                             verifyLog>>
         ELSE \E r \in VerifyOutcomes :
                /\ verifyCalls' = 1
                /\ fixRequests' = 0
                /\ fix_attempts' = 0
                /\ current_code' = blk.code
                /\ CASE r = "failure" ->
                          /\ verifyLog' = Append(verifyLog,
                                [block |-> blockIdx, kind |-> "detected", code |-> blk.code])
                          /\ fPc' = "loop"
                          /\ UNCHANGED blockIdx
                     [] r = "success" ->
                          /\ verifyLog' = Append(verifyLog,
                                [block |-> blockIdx, kind |-> "verified", code |-> blk.code])
                          /\ NextBlock
                     [] r = "err" ->
                          /\ UNCHANGED verifyLog
                          /\ NextBlock
    /\ UNCHANGED <<messages, processed_text, code_blocks, prompt>>
    /\ UNCHANGED notFix

\* one iteration of the while loop: agent.process(fix_prompt) appends the prompt
\* and, when it succeeds, the reply to the conversation. An agent error leaves
\* the loop; an empty reply continues without counting; a first fenced block
\* that is empty counts an attempt; any other fixed code is verified: success
\* replaces the block in processed and leaves the loop, failure counts an
\* attempt, a verification error leaves the loop
FixAttempt ==
    /\ fPc = "loop"
    /\ fix_attempts < MaxAttempts
    /\ fixRequests < MaxFixRequests
    /\ \E reply \in FixReplies, r \in VerifyOutcomes :
         LET fix_prompt == MessageUser(FixPrompt(current_code))
             asked == AddMsg(messages, fix_prompt, max_messages)
             fixed_code == FixedCode(blockIdx, fixRequests + 1)
             blk == code_blocks[blockIdx]
         IN /\ fixRequests' = fixRequests + 1
            /\ prompt' = ToPrompt(asked)
            /\ messages' = IF reply = "agent_err" THEN asked
                           ELSE AddMsg(asked,
                                       MessageAssistant(FixReply(
                                           IF reply \in {"text", "fenced"}
                                           THEN fixed_code ELSE NoCode)),
                                       max_messages)
            /\ CASE reply = "agent_err" ->
                      /\ verifyLog' = Append(verifyLog,
                              [block |-> blockIdx, kind |-> "warn", code |-> current_code])
                      /\ NextBlock
                      /\ UNCHANGED <<fix_attempts, current_code, processed_text,
                                     verifyCalls>>
                 [] reply = "empty" ->
                      UNCHANGED <<fPc, blockIdx, fix_attempts, current_code,
                                  processed_text, verifyCalls, verifyLog>>
                 [] reply = "fenced_empty" ->
                      /\ fix_attempts' = fix_attempts + 1
                      /\ UNCHANGED <<fPc, blockIdx, current_code, processed_text,
                                     verifyCalls, verifyLog>>
                 [] reply \in {"text", "fenced"} ->
                      /\ current_code' = fixed_code
                      /\ verifyCalls' = verifyCalls + 1
                      /\ CASE r = "success" ->
                                /\ processed_text' = ReplaceCodeBlock(processed_text,
                                        blk.code, fixed_code, blk.lang)
                                /\ verifyLog' = Append(verifyLog,
                                        [block |-> blockIdx, kind |-> "fixed",
                                         code |-> fixed_code])
                                /\ NextBlock
                                /\ UNCHANGED fix_attempts
                           [] r = "failure" ->
                                /\ fix_attempts' = fix_attempts + 1
                                /\ UNCHANGED <<fPc, blockIdx, processed_text, verifyLog>>
                           [] r = "err" ->
                                /\ verifyLog' = Append(verifyLog,
                                        [block |-> blockIdx, kind |-> "warn",
                                         code |-> fixed_code])
                                /\ NextBlock
                                /\ UNCHANGED <<fix_attempts, processed_text>>
    /\ UNCHANGED code_blocks
    /\ UNCHANGED notFix

\* the while condition fails: the exhaustion message is printed and the for
\* loop moves on
LoopExit ==
    /\ fPc = "loop"
    /\ fix_attempts >= MaxAttempts
    /\ verifyLog' = Append(verifyLog,
            [block |-> blockIdx, kind |-> "exhausted", code |-> current_code])
    /\ NextBlock
    /\ UNCHANGED <<messages, processed_text, code_blocks, fix_attempts, current_code,
                   fixRequests, verifyCalls, prompt>>
    /\ UNCHANGED notFix

\* after the last block processed is printed as the assistant's message
Display ==
    /\ fPc = "block"
    /\ blockIdx > Len(code_blocks)
    /\ fPc' = "done"
    /\ UNCHANGED <<messages, processed_text, code_blocks, blockIdx, fix_attempts,
                   current_code, fixRequests, verifyCalls, verifyLog, prompt>>
    /\ UNCHANGED notFix

\* agent.process(input) has returned Ok(response): the conversation ends with the
\* user's input and the reply, and processed is the reply's text
InitFix ==
    /\ \E blocks \in BlockSeqs :
         /\ messages = <<MessageUser(Input(1)), MessageAssistant(Reply(blocks))>>
         /\ processed_text = blocks
         /\ code_blocks = ExtractCodeBlocks(blocks)
    /\ max_messages = DefaultMaxMessages
    /\ overflow_checks = TRUE
    /\ panicked = FALSE
    /\ lastOp = "new"
    /\ preTrunc = <<>>
    /\ truncated = FALSE
    /\ nextId = 1
    /\ TurnIdle
    /\ StreamIdle
    /\ LspIdle
    /\ RetryIdle
    /\ prompt = ToPrompt(<<MessageUser(Input(1))>>)
    /\ CompressIdle
    /\ SideIdle
    /\ IoIdle
    /\ fPc = "block"
    /\ blockIdx = 1
    /\ fix_attempts = 0
    /\ current_code = NoCode
    /\ fixRequests = 0
    /\ verifyCalls = 0
    /\ verifyLog = <<>>

NextFix == VerifyBlock \/ FixAttempt \/ LoopExit \/ Display

SpecFix == InitFix /\ [][NextFix]_vars

----------------------------------------------------------------------------
\* compressor.compress(&conv).to_conversation() (compression.rs 62-85, 128-182)

LargeMaxMessages == 200   \* a configured agent.max_messages above the default

\* a conversation of s System messages (the prompt, then an earlier summary) and
\* n User and Assistant messages in turn
History(s, n) ==
    Take(<<MessageSystem(Text(0)), MessageSystem([kind |-> "summary", n |-> 1])>>, s)
    \o [i \in 1..n |-> IF i % 2 = 1 THEN MessageUser(Text(i))
                       ELSE MessageAssistant(Text(i))]

HistorySizes == 0..MaxNonSystem \cup {30, 120}
PreserveRecents == 0..MaxPreserve \cup {10, 150}

notCompress == <<overflow_checks, panicked, histVars, turnVars, streamVars, lspVars,
                 retryVars, fixVars, prompt, sideVars, ioVars>>

\* ContextCompressor::compress
CompressStep ==
    /\ cPc = "conversation"
    /\ compressed' = Compress(messages, compression_config.preserve_recent)
    /\ cPc' = "compressed"
    /\ UNCHANGED <<messages, max_messages, compression_config, recompressed>>
    /\ UNCHANGED notCompress

\* CompressedConversation::to_conversation: the result is a Conversation::new()
ToConversationStep ==
    /\ cPc = "compressed"
    /\ messages' = ToConversation(compressed)
    /\ max_messages' = DefaultMaxMessages
    /\ cPc' = "converted"
    /\ UNCHANGED <<compression_config, compressed, recompressed>>
    /\ UNCHANGED notCompress

\* ContextCompressor::compress of the conversation that to_conversation returned
CompressAgain ==
    /\ cPc = "converted"
    /\ recompressed' = Compress(messages, compression_config.preserve_recent)
    /\ cPc' = "recompressed"
    /\ UNCHANGED <<messages, max_messages, compression_config, compressed>>
    /\ UNCHANGED notCompress

InitCompress ==
    /\ \E s \in 0..2, n \in HistorySizes : messages = History(s, n)
    /\ max_messages = LargeMaxMessages
    /\ overflow_checks = TRUE
    /\ panicked = FALSE
    /\ lastOp = "new"
    /\ preTrunc = <<>>
    /\ truncated = FALSE
    /\ nextId = 1
    /\ TurnIdle
    /\ StreamIdle
    /\ LspIdle
    /\ RetryIdle
    /\ FixIdle
    /\ prompt = <<>>
    /\ cPc = "conversation"
    /\ compression_config \in [preserve_recent: PreserveRecents]
    /\ compressed = NoCompressed
    /\ recompressed = NoCompressed
    /\ SideIdle
    /\ IoIdle

NextCompress == CompressStep \/ ToConversationStep \/ CompressAgain

SpecCompress == InitCompress /\ [][NextCompress]_vars

----------------------------------------------------------------------------
\* The token estimator on its own (compression.rs 185-206)

notSide == <<convVars, histVars, turnVars, streamVars, lspVars, retryVars, fixVars,
             prompt, compressVars, ioVars>>

\* a text of a ASCII and n other characters
CharsText(a, n) == [kind |-> "chars", ascii |-> a, non_ascii |-> n]

EstimatedTexts == { CharsText(a, n) : a \in 0..MaxAscii, n \in 0..MaxNonAscii }

\* estimate_message_tokens of every message, and estimate_tokens of the conversation
EstimateStep ==
    /\ token_estimate = NoEstimate
    /\ token_estimate' = [messages |-> [i \in DOMAIN messages |->
                                          EstimateMessageTokens(messages[i])],
                          total |-> EstimateTokens(messages)]
    /\ UNCHANGED <<response, parsed_response>>
    /\ UNCHANGED notSide

InitEstimate ==
    /\ \E n \in 0..MaxEstimated :
         \E texts \in [1..n -> EstimatedTexts] :
            messages = [i \in 1..n |-> MessageUser(texts[i])]
    /\ max_messages = DefaultMaxMessages
    /\ overflow_checks = TRUE
    /\ panicked = FALSE
    /\ lastOp = "new"
    /\ preTrunc = <<>>
    /\ truncated = FALSE
    /\ nextId = 1
    /\ TurnIdle
    /\ StreamIdle
    /\ LspIdle
    /\ RetryIdle
    /\ FixIdle
    /\ prompt = <<>>
    /\ CompressIdle
    /\ token_estimate = NoEstimate
    /\ response = <<>>
    /\ parsed_response = NoParse
    /\ IoIdle

NextEstimate == EstimateStep

SpecEstimate == InitEstimate /\ [][NextEstimate]_vars

----------------------------------------------------------------------------
\* ToolCallParser (llm/tool_call.rs)

\* a response is read as tokens: a ``` marker (with the json tag and blanks the
\* pattern lets follow it), the JSON text of a tool call with or without
\* params, a JSON text that has no string "tool" key, or prose without braces
Fence == [t |-> "fence", tool |-> "none", params |-> "none"]
CallRead == [t |-> "json", tool |-> "read", params |-> "file_path"]
CallGlob == [t |-> "json", tool |-> "glob", params |-> "absent"]
NotACall == [t |-> "json", tool |-> "none", params |-> "none"]
Prose == [t |-> "prose", tool |-> "none", params |-> "none"]

Tokens == {Fence, CallRead, CallGlob, NotACall, Prose}

\* index of the first ``` marker at or after i, 0 when there is none
NextFence(r, i) ==
    IF \E j \in i..Len(r) : r[j] = Fence
    THEN CHOOSE j \in i..Len(r) : r[j] = Fence /\ \A k \in i..(j - 1) : r[k] # Fence
    ELSE 0

\* the matches of ```(?:json)?\s*\n?[\s\S]*?``` from position i on, as pairs of
\* marker positions: each opening marker is closed by the next marker
RECURSIVE FenceMatches(_, _)
FenceMatches(r, i) ==
    LET open == NextFence(r, i)
        close == IF open = 0 THEN 0 ELSE NextFence(r, open + 1)
    IN  IF open = 0 \/ close = 0 THEN <<>>
        ELSE <<[open |-> open, close |-> close]>> \o FenceMatches(r, close + 1)

\* find_raw_json: the first { with its matching }
FindRawJson(r) ==
    IF \E j \in DOMAIN r : r[j].t = "json"
    THEN <<<<r[CHOOSE j \in DOMAIN r :
                 r[j].t = "json" /\ \A k \in 1..(j - 1) : r[k].t # "json"]>>>>
    ELSE <<>>

\* extract_json_blocks: the trimmed content of every match, else the raw JSON
ExtractJsonBlocks(r) ==
    LET ms == FenceMatches(r, 1)
        blocks == [i \in DOMAIN ms |-> SubSeq(r, ms[i].open + 1, ms[i].close - 1)]
    IN  IF blocks = <<>> THEN FindRawJson(r) ELSE blocks

EmptyObject == "{}"

\* parse_tool_call: serde_json::from_str of the block, its string "tool" and its
\* "params", the empty object when absent
ParseToolCall(block) ==
    IF Len(block) = 1 /\ block[1].t = "json" /\ block[1].tool # "none"
    THEN [ok |-> TRUE, tool |-> block[1].tool,
          params |-> IF block[1].params = "absent" THEN EmptyObject
                     ELSE block[1].params]
    ELSE [ok |-> FALSE, tool |-> "none", params |-> "none"]

IsOkCall(c) == c.ok

ToolCall(c) == [tool |-> c.tool, params |-> c.params]

\* a parse that gives up at a block that is no tool call
Parse_FailsOnBadBlock(r) ==
    LET blocks == ExtractJsonBlocks(r)
        results == [i \in DOMAIN blocks |-> ParseToolCall(blocks[i])]
        oks == SelectSeq(results, IsOkCall)
    IN  IF Len(oks) < Len(results) THEN [result |-> "err", calls |-> <<>>]
        ELSE [result |-> "ok", calls |-> [i \in DOMAIN oks |-> ToolCall(oks[i])]]

\* ToolCallParser::parse
Parse(r) ==
    LET blocks == ExtractJsonBlocks(r)
        results == [i \in DOMAIN blocks |-> ParseToolCall(blocks[i])]
        oks == SelectSeq(results, IsOkCall)
    IN  [result |-> "ok", calls |-> [i \in DOMAIN oks |-> ToolCall(oks[i])]]

\* is position j of r inside a match, markers included?
InMatch(r, j) ==
    \E i \in DOMAIN FenceMatches(r, 1) :
        FenceMatches(r, 1)[i].open <= j /\ j <= FenceMatches(r, 1)[i].close

RECURSIVE Outside(_, _)
Outside(r, j) ==
    IF j > Len(r) THEN <<>>
    ELSE (IF InMatch(r, j) THEN <<>> ELSE <<r[j]>>) \o Outside(r, j + 1)

\* split_response: the response with every match removed, and
\* parse(response).unwrap_or_default()
SplitResponse(r) ==
    [text |-> Outside(r, 1),
     calls |-> IF Parse(r).result = "ok" THEN Parse(r).calls ELSE <<>>]

\* parse and split_response of the response
ParseStep ==
    /\ parsed_response = NoParse
    /\ parsed_response' = [result |-> Parse(response).result,
                           calls |-> Parse(response).calls,
                           text |-> SplitResponse(response).text,
                           split_calls |-> SplitResponse(response).calls]
    /\ UNCHANGED <<token_estimate, response>>
    /\ UNCHANGED notSide

InitParse ==
    /\ messages = <<>>
    /\ max_messages = DefaultMaxMessages
    /\ overflow_checks = TRUE
    /\ panicked = FALSE
    /\ lastOp = "new"
    /\ preTrunc = <<>>
    /\ truncated = FALSE
    /\ nextId = 1
    /\ TurnIdle
    /\ StreamIdle
    /\ LspIdle
    /\ RetryIdle
    /\ FixIdle
    /\ prompt = <<>>
    /\ CompressIdle
    /\ token_estimate = NoEstimate
    /\ response \in SeqsUpTo(Tokens, MaxTokens)
    /\ parsed_response = NoParse
    /\ IoIdle

NextParse == ParseStep

SpecParse == InitParse /\ [][NextParse]_vars

----------------------------------------------------------------------------
\* Saving a conversation and loading it back (agent/history.rs 98-147, 225-265)

\* HistoryManager::message_to_persisted
MessageToPersisted(m) ==
    LET role == CASE m.role = "System" -> "system"
                  [] m.role = "User" -> "user"
                  [] m.role = "Assistant" -> "assistant"
                  [] m.role = "Tool" -> "tool"
    IN  [role |-> role, tool_name |-> m.tool_name, content |-> m.content]

notPersist == <<convVars, histVars, turnVars, streamVars, lspVars, retryVars, fixVars,
                prompt, compressVars, sideVars, toolVars, moreVars>>

\* HistoryManager::save of the agent's conversation; serde_json writes every
\* string as it is and leaves out a tool_name of None, which reads back as None
Save ==
    /\ history_file = NoFile
    /\ history_file' = [kind |-> "file",
                        messages |-> [i \in DOMAIN messages |->
                                        MessageToPersisted(messages[i])]]
    /\ UNCHANGED loaded
    /\ UNCHANGED notPersist

\* HistoryManager::load of the file that save wrote
LoadSaved ==
    /\ history_file # NoFile
    /\ loaded = NotLoaded
    /\ loaded' = [kind |-> "conversation",
                  messages |-> LoadConversation(history_file.messages)]
    /\ UNCHANGED history_file
    /\ UNCHANGED notPersist

\* the conversations an agent holds: built by add on a Conversation of the
\* agent's max_messages, short ones of every role and long ones of User and
\* Assistant messages after a system prompt
SavedRoleSeqs == SeqsUpTo(Roles, MaxSaved)
SavedSizes == {DefaultMaxMessages - 1, DefaultMaxMessages, DefaultMaxMessages + 1, 120}
AgentMaxMessages == {SmallMaxMessages, DefaultMaxMessages, LargeMaxMessages}

HeldConversations(max) ==
    { AddAll(<<>>, [i \in DOMAIN rs |-> MessageOfRole(rs[i], Text(i))], max)
        : rs \in SavedRoleSeqs }
    \cup { AddAll(<<>>, History(sys, n), max) : sys \in 0..1, n \in SavedSizes }

InitPersist ==
    /\ max_messages \in AgentMaxMessages
    /\ messages \in HeldConversations(max_messages)
    /\ overflow_checks = TRUE
    /\ panicked = FALSE
    /\ lastOp = "new"
    /\ preTrunc = <<>>
    /\ truncated = FALSE
    /\ nextId = 1
    /\ TurnIdle
    /\ StreamIdle
    /\ LspIdle
    /\ RetryIdle
    /\ FixIdle
    /\ prompt = <<>>
    /\ CompressIdle
    /\ SideIdle
    /\ IoIdle

NextPersist == Save \/ LoadSaved

SpecPersist == InitPersist /\ [][NextPersist]_vars

----------------------------------------------------------------------------
\* One execution of a tool (tools/): Tool::execute(params) of each of the
\* fourteen tools, on a JSON params object

\* JSON values of a params object; Absent stands for a key that is not there
Absent == [type |-> "absent"]
Str(v) == [type |-> "string", value |-> v]
Num(n) == [type |-> "number", value |-> n]
Bool(b) == [type |-> "bool", value |-> b]
Arr(vs) == [type |-> "array", value |-> vs]

\* Value::as_str, as_u64, as_bool, as_array return Some
IsStr(v) == v.type = "string"
IsU64(v) == v.type = "number" /\ v.value >= 0
IsBool(v) == v.type = "bool"
IsArray(v) == v.type = "array"

\* params.get(name)
Get(params, name) == IF name \in DOMAIN params THEN params[name] ELSE Absent

\* the parameters each execute unwraps with ok_or_else(..)?, in the order of
\* the code, with the accessor it applies
Required(name, accessor) == [name |-> name, accessor |-> accessor]

RequiredParams(tool) ==
    CASE tool = "read" -> <<Required("file_path", "as_str")>>
      [] tool = "write" -> <<Required("file_path", "as_str"), Required("content", "as_str")>>
      [] tool = "edit" -> <<Required("file_path", "as_str"), Required("old_string", "as_str"),
                            Required("new_string", "as_str")>>
      [] tool = "bash" -> <<Required("command", "as_str")>>
      [] tool = "glob" -> <<Required("pattern", "as_str")>>
      [] tool = "grep" -> <<Required("pattern", "as_str")>>
      [] tool = "git_add" -> <<Required("files", "as_array")>>
      [] tool = "git_commit" -> <<Required("message", "as_str")>>
      [] tool = "lsp_definition" -> <<Required("file_path", "as_str"), Required("line", "as_u64"),
                                      Required("character", "as_u64")>>
      [] tool = "lsp_references" -> <<Required("file_path", "as_str"), Required("line", "as_u64"),
                                      Required("character", "as_u64")>>
      [] tool = "lsp_diagnostics" -> <<Required("file_path", "as_str")>>
      [] OTHER -> <<>>

Accepts(accessor, v) ==
    CASE accessor = "as_str" -> IsStr(v)
      [] accessor = "as_u64" -> IsU64(v)
      [] accessor = "as_array" -> IsArray(v)

\* the required parameters that the accessor of the code turns into None
Rejected(tool, params) ==
    { j \in DOMAIN RequiredParams(tool) :
        ~Accepts(RequiredParams(tool)[j].accessor, Get(params, RequiredParams(tool)[j].name)) }

\* the first of them, which is the one whose `?` returns
FirstRejected(tool, params) ==
    CHOOSE j \in Rejected(tool, params) : \A k \in Rejected(tool, params) : j <= k

\* a message of a result: the text it is built from, and the parameter name
\* or the number it is formatted with
Text3(what, name, count) == [what |-> what, name |-> name, count |-> count]
Says(what) == Text3(what, "", 0)
SaysCount(what, count) == Text3(what, "", count)
NoText == Says("")

\* what execute returns: Err(anyhow), Ok(ToolResult::success), Ok(ToolResult::failure),
\* or a panic that unwinds out of it; a ToolResult::failure has an empty output
\* and Some(error), a success has error None
Err(message) == [kind |-> "err", success |-> FALSE, output |-> NoText, error |-> message]
ToolSuccess(output) == [kind |-> "ok", success |-> TRUE, output |-> output, error |-> NoText]
ToolFailure(error) == [kind |-> "ok", success |-> FALSE, output |-> NoText, error |-> error]
Panic == [kind |-> "panic", success |-> FALSE, output |-> NoText, error |-> NoText]

\* anyhow!("Missing <name> parameter")
Missing(name) == Text3("Missing parameter", name, 0)

notTool == <<convVars, histVars, turnVars, streamVars, lspVars, retryVars, fixVars,
             prompt, compressVars, sideVars, persistVars, moreVars>>

\* what is left of execute once the required parameters are unwrapped, for the
\* tools other than edit, bash and grep: the returns the code has, each with what was
\* done before it
Outcome(ret, done) == [ret |-> ret, effects |-> done]

Outcomes(tool, params) ==
    CASE tool = "read" ->
           {Outcome(ToolFailure(Says("File not found")), <<>>),
            Outcome(ToolFailure(Says("Failed to read file")), <<"read file">>),
            Outcome(ToolSuccess(Says("File")), <<"read file">>)}
      [] tool = "write" ->
           {Outcome(Err(Says("create_dir_all")), <<"create_dir_all">>),
            Outcome(ToolFailure(Says("Failed to write file")), <<"write file">>),
            Outcome(ToolSuccess(Says("Successfully wrote")), <<"write file">>),
            Outcome(ToolSuccess(Says("Successfully wrote")), <<"create_dir_all", "write file">>)}
      [] tool = "glob" ->
           {Outcome(ToolFailure(Says("Invalid glob pattern")), <<>>),
            Outcome(ToolSuccess(Says("Found files")), <<"read directory">>)}
      [] tool \in {"git_status", "git_diff", "git_log", "git_add", "git_commit"} ->
           {Outcome(Err(Says("spawn")), <<>>),
            Outcome(ToolFailure(Says("git failed")), <<tool>>),
            Outcome(ToolSuccess(Says("git output")), <<tool>>)}
      [] tool \in {"lsp_definition", "lsp_references", "lsp_diagnostics"} ->
           {Outcome(Err(Says("LSP client not initialized")), <<>>),
            Outcome(Err(Says("did_open")), <<"lsp request">>),
            Outcome(ToolFailure(Says("LSP error")), <<"lsp request">>),
            Outcome(ToolSuccess(Says("LSP result")), <<"lsp request">>)}

\* Tool::execute of a tool other than edit, bash and grep
Execute ==
    /\ tool_call # NoCall
    /\ tool_call.tool \notin {"edit", "bash", "grep"}
    /\ tool_return = NoReturn
    /\ IF Rejected(tool_call.tool, tool_call.params) # {}
       THEN /\ tool_return' = Err(Missing(RequiredParams(tool_call.tool)[
                                    FirstRejected(tool_call.tool, tool_call.params)].name))
            /\ UNCHANGED effects
       ELSE \E o \in Outcomes(tool_call.tool, tool_call.params) :
               /\ tool_return' = o.ret
               /\ effects' = o.effects
    /\ UNCHANGED <<tool_call, file_content, child, clock>>
    /\ UNCHANGED notTool

\* ---- the edit tool (tools/file/edit.rs 59-124) ----
\* a string is the sequence of its characters; "a" and "b" take one byte in
\* UTF-8, "e_acute" takes two
ByteWidth(c) == IF c = "e_acute" THEN 2 ELSE 1

RECURSIVE ByteLen(_)
ByteLen(str) == IF str = <<>> THEN 0 ELSE ByteWidth(Head(str)) + ByteLen(Tail(str))

\* str.is_char_boundary(index)
IsCharBoundary(str, index) ==
    \E k \in 0..Len(str) : ByteLen(Take(str, k)) = index

\* pat matches str at character i
MatchesAt(str, pat, i) ==
    /\ i + Len(pat) - 1 <= Len(str)
    /\ SubSeq(str, i, i + Len(pat) - 1) = pat

\* str.matches(pat).count(): the matches found from left to right without
\* overlap; the empty pattern matches at every character boundary
RECURSIVE CountMatchesFrom(_, _, _)
CountMatchesFrom(str, pat, i) ==
    IF i + Len(pat) - 1 > Len(str) THEN 0
    ELSE IF MatchesAt(str, pat, i) THEN 1 + CountMatchesFrom(str, pat, i + Len(pat))
    ELSE CountMatchesFrom(str, pat, i + 1)

CountMatches(str, pat) ==
    IF pat = <<>> THEN Len(str) + 1 ELSE CountMatchesFrom(str, pat, 1)

\* str.replacen(pat, to, count), from character i on
RECURSIVE ReplacenFrom(_, _, _, _, _)
ReplacenFrom(str, pat, to, count, i) ==
    IF i > Len(str) THEN (IF pat = <<>> /\ count > 0 THEN to ELSE <<>>)
    ELSE IF count = 0 THEN SubSeq(str, i, Len(str))
    ELSE IF pat = <<>> THEN to \o <<str[i]>> \o ReplacenFrom(str, pat, to, count - 1, i + 1)
    ELSE IF MatchesAt(str, pat, i)
         THEN to \o ReplacenFrom(str, pat, to, count - 1, i + Len(pat))
    ELSE <<str[i]>> \o ReplacenFrom(str, pat, to, count, i + 1)

Replacen(str, pat, to, count) == ReplacenFrom(str, pat, to, count, 1)

\* str.replace(pat, to)
Replace(str, pat, to) == Replacen(str, pat, to, CountMatches(str, pat))

\* params.get("replace_all").and_then(|v| v.as_bool()).unwrap_or(false)
ReplaceAll(params) ==
    IF IsBool(Get(params, "replace_all")) THEN Get(params, "replace_all").value ELSE FALSE

\* the message of the failure for no occurrence slices old_string at byte 50
\* when it is longer than that, which panics inside a character
TruncateLimit == 50

NotFoundReturn(old_string) ==
    IF ByteLen(old_string) > TruncateLimit /\ ~IsCharBoundary(old_string, TruncateLimit)
    THEN Panic
    ELSE ToolFailure(Says("old_string not found in file"))

\* EditTool::execute; the read and the write of the file fail or not as the
\* filesystem decides
EditExecute ==
    /\ tool_call # NoCall
    /\ tool_call.tool = "edit"
    /\ tool_return = NoReturn
    /\ LET params == tool_call.params
           old_string == params.old_string.value
           new_string == params.new_string.value
           replace_all == ReplaceAll(params)
           occurrences == CountMatches(file_content, old_string)
           new_content == IF replace_all THEN Replace(file_content, old_string, new_string)
                          ELSE Replacen(file_content, old_string, new_string, 1)
           replaced == IF replace_all THEN occurrences ELSE 1
       IN  IF Rejected("edit", params) # {}
           THEN /\ tool_return' = Err(Missing(RequiredParams("edit")[
                                        FirstRejected("edit", params)].name))
                /\ UNCHANGED <<file_content, effects>>
           ELSE IF file_content = AbsentFile
           THEN /\ tool_return' = ToolFailure(Says("File not found"))
                /\ UNCHANGED <<file_content, effects>>
           ELSE \E read_ok \in BOOLEAN, write_ok \in BOOLEAN :
                  IF ~read_ok
                  THEN /\ tool_return' = ToolFailure(Says("Failed to read file"))
                       /\ effects' = <<"read file">>
                       /\ UNCHANGED file_content
                  ELSE IF occurrences = 0
                  THEN /\ tool_return' = NotFoundReturn(old_string)
                       /\ effects' = <<"read file">>
                       /\ UNCHANGED file_content
                  ELSE IF occurrences > 1 /\ ~replace_all
                  THEN /\ tool_return' = ToolFailure(SaysCount("old_string found times", occurrences))
                       /\ effects' = <<"read file">>
                       /\ UNCHANGED file_content
                  ELSE IF write_ok
                  THEN /\ tool_return' = ToolSuccess(SaysCount("Successfully replaced", replaced))
                       /\ effects' = <<"read file", "write file">>
                       /\ file_content' = new_content
                  ELSE /\ tool_return' = ToolFailure(Says("Failed to write file"))
                       /\ effects' = <<"read file", "write file">>
                       /\ UNCHANGED file_content
    /\ UNCHANGED <<tool_call, child, clock>>
    /\ UNCHANGED notTool

\* ---- the bash tool (tools/bash/executor.rs 65-133) ----
\* a command is what running it does: the seconds it runs for and whether it
\* exits with status 0
Command(runs_for, succeeds) == [runs_for |-> runs_for, succeeds |-> succeeds]

\* params.get("timeout").and_then(|v| v.as_u64()).unwrap_or(self.timeout_secs)
TimeoutSecs(call) ==
    IF IsU64(Get(call.params, "timeout")) THEN Get(call.params, "timeout").value
    ELSE call.timeout_secs

\* BashTool::execute up to the first poll of the future under
\* tokio::time::timeout, which spawns the child or fails to
BashExecute ==
    /\ tool_call # NoCall
    /\ tool_call.tool = "bash"
    /\ tool_return = NoReturn
    /\ child = "none"
    /\ IF Rejected("bash", tool_call.params) # {}
       THEN /\ tool_return' = Err(Missing(RequiredParams("bash")[
                                    FirstRejected("bash", tool_call.params)].name))
            /\ UNCHANGED <<effects, child>>
       ELSE \E spawned \in BOOLEAN :
              IF spawned
              THEN /\ child' = "running"
                   /\ effects' = <<"spawn bash">>
                   /\ UNCHANGED tool_return
              ELSE /\ tool_return' = ToolFailure(Says("Failed to execute command"))
                   /\ UNCHANGED <<effects, child>>
    /\ UNCHANGED <<tool_call, file_content, clock>>
    /\ UNCHANGED notTool

\* a second passes: before execute has returned only while the child runs and
\* the timer has not fired, and never past the end of the command
Tick ==
    /\ child = "running"
    /\ clock < tool_call.params.command.value.runs_for
    /\ tool_return = NoReturn => clock < TimeoutSecs(tool_call)
    /\ clock' = clock + 1
    /\ UNCHANGED <<tool_call, tool_return, file_content, effects, child>>
    /\ UNCHANGED notTool

\* the command ends
ChildExit ==
    /\ child = "running"
    /\ clock >= tool_call.params.command.value.runs_for
    /\ child' = "exited"
    /\ UNCHANGED <<tool_call, tool_return, file_content, effects, clock>>
    /\ UNCHANGED notTool

\* the future completes: the pipes are at end of file and wait() has returned
BashReturn ==
    /\ tool_call # NoCall
    /\ tool_call.tool = "bash"
    /\ tool_return = NoReturn
    /\ child = "exited"
    /\ tool_return' = IF tool_call.params.command.value.succeeds
                      THEN ToolSuccess(Says("output"))
                      ELSE ToolFailure(Says("Command exited with code"))
    /\ UNCHANGED <<tool_call, file_content, effects, child, clock>>
    /\ UNCHANGED notTool

\* the timer fires before the future has completed: the future is dropped and
\* with it the Child, which was built without kill_on_drop, so that the process
\* is left as it is
BashTimeout ==
    /\ tool_call # NoCall
    /\ tool_call.tool = "bash"
    /\ tool_return = NoReturn
    /\ child = "running"
    /\ clock >= TimeoutSecs(tool_call)
    /\ tool_return' = ToolFailure(SaysCount("Command timed out after seconds",
                                            TimeoutSecs(tool_call)))
    /\ UNCHANGED <<tool_call, file_content, effects, child, clock>>
    /\ UNCHANGED notTool

\* ---- the grep tool (tools/search/grep.rs 57-137) ----
GrepCap == 100   \* results.len() at which the directory walk stops

\* a pattern is whether Regex::new accepts it; a search path is what is found
\* there: a file, a directory or nothing, and for each file, in the order of
\* the walk, the number of its lines that the pattern matches
Pattern(valid) == [valid |-> valid]
Tree(what, files) == [kind |-> what, files |-> files]
CurrentDir == Tree("dir", <<1>>)

\* params.get("path").and_then(|v| v.as_str()).unwrap_or(".")
SearchPath(params) ==
    IF IsStr(Get(params, "path")) THEN Get(params, "path").value ELSE CurrentDir

Min(a, b) == IF a <= b THEN a ELSE b

\* results.len() after the walk of a directory from entry i on: a file's
\* matching lines are pushed until there are GrepCap results, and the walk
\* ends there
RECURSIVE WalkFrom(_, _, _)
WalkFrom(files, i, results) ==
    IF i > Len(files) THEN results
    ELSE LET after == Min(results + files[i], GrepCap)
         IN  IF after >= GrepCap THEN after ELSE WalkFrom(files, i + 1, after)

\* results.len() when the search is over: every matching line of a single
\* file, the capped walk of a directory, nothing for any other path
GrepResults(tree) ==
    CASE tree.kind = "file" -> tree.files[1]
      [] tree.kind = "dir" -> WalkFrom(tree.files, 1, 0)
      [] OTHER -> 0

\* GrepTool::execute
GrepExecute ==
    /\ tool_call # NoCall
    /\ tool_call.tool = "grep"
    /\ tool_return = NoReturn
    /\ LET params == tool_call.params
           tree == SearchPath(params)
           results == GrepResults(tree)
       IN  IF Rejected("grep", params) # {}
           THEN /\ tool_return' = Err(Missing(RequiredParams("grep")[
                                        FirstRejected("grep", params)].name))
                /\ UNCHANGED effects
           ELSE IF ~params.pattern.value.valid
           THEN /\ tool_return' = ToolFailure(Says("Invalid regex"))
                /\ UNCHANGED effects
           ELSE /\ tool_return' =
                     IF results = 0 THEN ToolSuccess(Says("No matches found"))
                     ELSE ToolSuccess(Text3("Found matches",
                                            IF results >= GrepCap THEN " (truncated)" ELSE "",
                                            results))
                /\ effects' = IF tree.kind \in {"file", "dir"} THEN <<"read file">> ELSE <<>>
    /\ UNCHANGED <<tool_call, file_content, child, clock>>
    /\ UNCHANGED notTool

\* ---- the calls executed ----
OtherTools == MainRegistry \ {"edit", "bash", "grep"}

ValuesFor(accessor) ==
    CASE accessor = "as_str" -> {Absent, Num(1), Str("x")}
      [] accessor = "as_u64" -> {Absent, Str("x"), Num(1)}
      [] accessor = "as_array" -> {Absent, Str("x"), Arr(<<Str("x")>>), Arr(<<Num(1)>>)}

ParamsOf(tool) ==
    LET required == RequiredParams(tool)
        names == { required[j].name : j \in DOMAIN required }
        values == UNION { ValuesFor(required[j].accessor) : j \in DOMAIN required }
    IN  { ps \in [names -> values] :
            \A j \in DOMAIN required : ps[required[j].name] \in ValuesFor(required[j].accessor) }

OtherCalls ==
    UNION { { [tool |-> t, params |-> ps] : ps \in ParamsOf(t) } : t \in OtherTools }

\* strings of more than TruncateLimit bytes, with byte TruncateLimit on a
\* character boundary and inside a character
LongAscii == [i \in 1..(TruncateLimit + 1) |-> "a"]
LongAccented == [i \in 1..(TruncateLimit + 1) |-> IF i = TruncateLimit THEN "e_acute" ELSE "a"]

OldStrings == SeqsUpTo({"a", "b"}, MaxOld) \cup {LongAscii, LongAccented}
NewStrings == {<<>>, <<"b">>, <<"a", "a">>}
FileContents == SeqsUpTo({"a", "b"}, MaxContent) \cup {AbsentFile}

EditCalls ==
    { [tool |-> "edit",
       params |-> [file_path |-> fp, old_string |-> old, new_string |-> new, replace_all |-> ra]]
        : fp \in {Absent, Str(<<"f">>)},
          old \in {Absent, Num(1)} \cup { Str(o) : o \in OldStrings },
          new \in {Absent} \cup { Str(n) : n \in NewStrings },
          ra \in {Absent, Str(<<"a">>), Bool(FALSE), Bool(TRUE)} }

MatchCounts == 0..MaxMatches \cup {GrepCap - 1, GrepCap, GrepCap + 1}

Trees ==
    { Tree("file", <<m>>) : m \in MatchCounts }
    \cup { Tree("dir", fs) : fs \in SeqsUpTo(MatchCounts, MaxGrepFiles) }
    \cup { Tree("none", <<>>) }

GrepCalls ==
    { [tool |-> "grep", params |-> [pattern |-> pat, path |-> path]]
        : pat \in {Absent, Num(1), Str(Pattern(TRUE)), Str(Pattern(FALSE))},
          path \in {Absent, Num(1)} \cup { Str(t) : t \in Trees } }

BashCalls ==
    { [tool |-> "bash",
       params |-> [command |-> c, timeout |-> t],
       timeout_secs |-> d]
        : c \in {Absent, Num(1)}
                \cup { Str(Command(r, ok)) : r \in 0..MaxRun, ok \in BOOLEAN },
          t \in {Absent, Str(<<"a">>)} \cup { Num(n) : n \in 0..MaxTimeout },
          d \in {1, MaxTimeout + 1} }

InitTools ==
    /\ messages = <<>>
    /\ max_messages = DefaultMaxMessages
    /\ overflow_checks = TRUE
    /\ panicked = FALSE
    /\ lastOp = "new"
    /\ preTrunc = <<>>
    /\ truncated = FALSE
    /\ nextId = 1
    /\ TurnIdle
    /\ StreamIdle
    /\ LspIdle
    /\ RetryIdle
    /\ FixIdle
    /\ prompt = <<>>
    /\ CompressIdle
    /\ SideIdle
    /\ history_file = NoFile
    /\ loaded = NotLoaded
    /\ \/ tool_call \in OtherCalls /\ file_content = <<>>
       \/ tool_call \in EditCalls /\ file_content \in FileContents
       \/ tool_call \in BashCalls /\ file_content = <<>>
       \/ tool_call \in GrepCalls /\ file_content = <<>>
    /\ tool_return = NoReturn
    /\ effects = <<>>
    /\ child = "none"
    /\ clock = 0
    /\ MoreIdle

NextTools ==
    \/ Execute
    \/ EditExecute
    \/ BashExecute
    \/ Tick
    \/ ChildExit
    \/ BashReturn
    \/ BashTimeout
    \/ GrepExecute

SpecTools == InitTools /\ [][NextTools]_vars

----------------------------------------------------------------------------
\* Properties of the Conversation store

IsSuffix(s, t) == Len(s) <= Len(t) /\ s = Skip(t, Len(t) - Len(s))

\* C5: after every Conversation operation that returns, len() <= max_messages.
C5_LenWithinMax ==
    ~panicked => Len(messages) <= max_messages

\* C6: at most one message has role System and, if one exists, it is at index 0
\* (the first element of the sequence).
C6_SingleSystemFirst ==
    /\ Len(SystemMsgs(messages)) <= 1
    /\ Len(SystemMsgs(messages)) = 1 => messages[1].role = "System"

\* C7: whenever add or set_max_messages truncates, every System message is kept
\* and the surviving non-System messages are the most recent suffix of the
\* non-System messages truncate_if_needed saw, in their original order.
C7_TruncationKeepsRecentSuffix ==
    truncated =>
        /\ lastOp \in {"add", "set_max_messages"}
        /\ SystemMsgs(messages) = SystemMsgs(preTrunc)
        /\ IsSuffix(NonSystemMsgs(messages), NonSystemMsgs(preTrunc))

\* a truncation that removed some, but not all, non-System messages next to a
\* System message
C7_Witness ==
    /\ truncated
    /\ SystemMsgs(preTrunc) # <<>>
    /\ NonSystemMsgs(messages) # <<>>
    /\ Len(NonSystemMsgs(messages)) < Len(NonSystemMsgs(preTrunc))

----------------------------------------------------------------------------
\* Properties of the Agent turn

\* index of the User message of the turn, when nothing was truncated
base == Len(turnPre) + 1

\* the whole turn fits under max_messages
NoOverflow == Len(turnPre) + Len(turnCalls) + 2 <= max_messages

\* number of calls the tool loop has gone through
processed == Len(turnCalls) - Len(calls)

\* the allowed list of a mode, read off the two constant lists
InAllowedList(m, tool) ==
    \/ m = "plan" /\ tool \in PLAN_TOOLS
    \/ m = "execute" /\ tool \in EXECUTE_TOOLS

\* C1: a parsed call whose tool is not allowed in the current mode is never
\* executed; its Tool message "not allowed in <mode> mode" is appended, and the
\* later calls of the reply still get their Tool messages.
C1_DeniedToolNotExecuted ==
    /\ \A k \in 1..Len(executed) :
          InAllowedList(executed[k].mode, executed[k].tool)
    /\ (pc = "tools" /\ NoOverflow) =>
          \A i \in 1..processed :
              ~InAllowedList(mode, turnCalls[i]) =>
                  /\ \A k \in 1..Len(executed) : executed[k].n # i
                  /\ messages[base + i] = MessageTool(turnCalls[i], NotAllowed(i, mode))
    /\ (pc = "done" /\ outcome = "ok" /\ NoOverflow) =>
          \A j \in 1..Len(turnCalls) :
              /\ messages[base + j].role = "Tool"
              /\ messages[base + j].tool_name = turnCalls[j]

\* a streaming turn in plan mode whose first call (write) was denied and whose
\* second call (read) was executed
C1_Witness ==
    /\ kind = "process_streaming"
    /\ pc = "tools"
    /\ calls = <<>>
    /\ mode = "plan"
    /\ turnCalls = <<"write", "read">>
    /\ Len(executed) = 1
    /\ NoOverflow

\* C2: a tool that requires confirmation is dispatched only after the user has
\* approved a confirmation prompt for that call.
C2_ConfirmedBeforeDispatch ==
    \A k \in 1..Len(executed) :
        RequiresConfirmation(executed[k].tool) =>
            \E p \in 1..Len(prompts) :
                /\ prompts[p].n = executed[k].n
                /\ prompts[p].tool = executed[k].tool
                /\ ConfirmToolExecution(prompts[p].tool, prompts[p].answer)

TransportFailure == [kind |-> "transport_failure"]

\* C4: a streaming turn that met a transport error ends with the pre-turn
\* conversation plus the User message plus one Assistant message describing the
\* failure, with no tool dispatched and no Tool message.
C4_TransportErrorEndsTurn ==
    (kind = "process_streaming" /\ pc = "done"
        /\ transport \in {"connect", "midstream"} /\ NoOverflow) =>
            /\ executed = <<>>
            /\ messages = turnPre \o <<MessageUser(Input(1)),
                                        MessageAssistant(TransportFailure)>>

----------------------------------------------------------------------------
\* Properties of the language server driver

QueryMethods == {"textDocument/definition", "textDocument/references",
                 "textDocument/diagnostic"}

\* C8: every return of LspClient::request that read a frame read the response
\* whose id is the id the request sent; no request takes a notification or the
\* response to another request as its reply.
C8_ResponseMatchesRequest ==
    \A k \in DOMAIN returns :
        returns[k].frame # NoFrame => returns[k].frame.id = returns[k].id

ExitAfterShutdown ==
    \A e \in DOMAIN sent :
        sent[e].method = "exit" =>
            \E r \in 1..(e - 1) : sent[r].method = "shutdown"

ShutdownAnswered ==
    \E i \in DOMAIN sent, r \in replies :
        /\ sent[i].method = "shutdown"
        /\ r.id = sent[i].id
        /\ ~r.error

ExitSent == \E e \in DOMAIN sent : sent[e].method = "exit"

\* C9: exit is never sent before the shutdown request, and once the server has
\* replied to the shutdown request with a result (null included) the exit
\* notification is eventually sent.
C9_ShutdownThenExit ==
    /\ []ExitAfterShutdown
    /\ ShutdownAnswered ~> ExitSent

\* C10: a definition, references or diagnostic request is sent only after the
\* initialize request was answered and `initialized` was sent, and the frame
\* sent right before it is the didOpen of the same file.
C10_QueryAfterInitAndDidOpen ==
    \A i \in DOMAIN sent :
        sent[i].method \in QueryMethods =>
            /\ \E k \in DOMAIN returns :
                  /\ returns[k].method = "initialize"
                  /\ returns[k].frame.id = returns[k].id
                  /\ returns[k].outcome = "ok"
                  /\ returns[k].at < i
            /\ \E j \in 1..(i - 1) : sent[j].method = "initialized"
            /\ i > 1
            /\ sent[i - 1].method = "textDocument/didOpen"
            /\ sent[i - 1].file = sent[i].file

\* C10 witness: a references request reached the server and was answered
C10_Witness ==
    \E i \in DOMAIN sent, k \in DOMAIN returns :
        /\ sent[i].method = "textDocument/references"
        /\ sent[i].file = "b.rs"
        /\ returns[k].method = "textDocument/references"
        /\ returns[k].outcome = "ok"

----------------------------------------------------------------------------
\* Properties of the retry loop

RetryableKinds == {"Connection", "Timeout", "ServerError"}

\* C11: operation() is called at most max_retries + 1 times; every call but
\* the last failed with a Connection, Timeout or ServerError and was followed
\* by a sleep of backoff(i); a success is returned at once with its own body;
\* an error is returned right after a NonRetryable failure or after failure
\* number max_retries + 1, with that last error and the number of retries.
C11_BoundedRetry ==
    /\ Len(attempts) <= retry_config.max_retries + 1
    /\ \A i \in 1..(Len(attempts) - 1) :
          /\ ~attempts[i].ok
          /\ FromReqwestError(attempts[i].error) \in RetryableKinds
    /\ Len(sleeps) = IF rPc = "done" THEN Len(attempts) - 1 ELSE Len(attempts)
    /\ \A i \in DOMAIN sleeps : sleeps[i] = CalculateBackoff(retry_config, i - 1)
    /\ rPc = "call" => retResult = NoResult
    /\ rPc = "done" =>
          LET last == attempts[Len(attempts)] IN
          IF last.ok
          THEN /\ retResult.kind = "ok"
               /\ retResult.body = Len(attempts)
          ELSE /\ retResult.kind = "err"
               /\ retResult.error = last.error
               /\ retResult.retries = Len(attempts) - 1
               /\ \/ FromReqwestError(last.error) = "NonRetryable"
                  \/ Len(attempts) = retry_config.max_retries + 1

\* C11 witness: two failures, then a success, with initial = 1 ms and
\* multiplier = 2: sleeps of 1 ms and 2 ms, and the third body is returned
C11_Witness ==
    /\ retry_config.initial_backoff_ms = 1
    /\ retry_config.backoff_multiplier = [num |-> 2, den |-> 1]
    /\ Len(attempts) = 3
    /\ sleeps = <<1, 2>>
    /\ retResult.kind = "ok"
    /\ retResult.body = 3

\* v is min(max_backoff_ms, initial_backoff_ms * multiplier^i), exactly
IsMinOfCapAndPower(cfg, i, v) ==
    LET num == cfg.initial_backoff_ms * Pow(cfg.backoff_multiplier.num, i)
        den == Pow(cfg.backoff_multiplier.den, i)
    IN  IF num >= cfg.max_backoff_ms * den THEN v = cfg.max_backoff_ms
        ELSE v * den = num

\* C12: for every attempt index i, calculate_backoff(i) is
\* min(max_backoff_ms, initial_backoff_ms * multiplier^i); the backoffs never
\* decrease with i and never exceed max_backoff_ms.
C12_BackoffFormula ==
    \A i \in 0..MaxIndex :
        /\ IsMinOfCapAndPower(retry_config, i, CalculateBackoff(retry_config, i))
        /\ CalculateBackoff(retry_config, i) <= retry_config.max_backoff_ms
        /\ i < MaxIndex =>
              CalculateBackoff(retry_config, i) <= CalculateBackoff(retry_config, i + 1)

----------------------------------------------------------------------------
\* Properties of the streaming client

Texts(chunks) == [i \in DOMAIN chunks |-> chunks[i].text]

\* C13: the chunks returned by next are, in order, the first chunks the
\* producer parsed, and accumulated() is the concatenation of their texts.
C13_ChunksInProducerOrder ==
    /\ Len(delivered) <= Len(parsed)
    /\ delivered = Take(parsed, Len(delivered))
    /\ accumulated = Texts(delivered)

\* C13 witness: two chunks with different texts were returned
C13_Witness ==
    /\ Len(delivered) = 2
    /\ delivered[1].text # delivered[2].text
    /\ Len(parsed) = 2

DoneChunkIsLast ==
    /\ \A i \in DOMAIN delivered : delivered[i].done => i = Len(delivered)
    /\ \A i \in DOMAIN delivered : delivered[i].stats => delivered[i].done

ClosedAfterDoneOrError ==
    /\ (\E i \in DOMAIN parsed : parsed[i].done) => producer = "closed"
    /\ transport = "midstream" => producer = "closed"

NoneAfterClosure ==
    (producer = "closed" /\ channel = <<>>) =>
        (delivered' = delivered /\ accumulated' = accumulated)

CollectReturnsAccumulated ==
    (pc = "streaming" /\ pc' # "streaming") => turnCalls' = ParseCalls(accumulated)

\* C14: the producer closes the channel after a done chunk or a transport
\* error; a done chunk is the last chunk delivered and the only one with
\* stats; once the channel is closed and drained next returns nothing more;
\* and the loop over next ends, with the text accumulated so far.
C14_DoneClosesStream ==
    /\ []DoneChunkIsLast
    /\ []ClosedAfterDoneOrError
    /\ [][NoneAfterClosure]_vars
    /\ [][CollectReturnsAccumulated]_vars
    /\ (pc = "streaming") ~> (pc # "streaming")

\* C14 witness: a body whose first line is done and is followed by another
\* line; one chunk was delivered and the loop has ended
C14_Witness ==
    /\ kind = "process_streaming"
    /\ pc # "streaming"
    /\ Len(delivered) = 1
    /\ delivered[1].done
    /\ delivered[1].stats
    /\ body # <<>>

\* C15: a call of generate_streaming issues one POST; a non-2xx status gives
\* one Err, no StreamingResponse and no chunk; a failed streaming request
\* (connect, status, mid-stream) is not sent again.
C15_StreamingNotRetried ==
    kind = "process_streaming" =>
        /\ httpRequests <= 1
        /\ pc # "connect" => httpRequests = 1
        /\ transport = "status" =>
              /\ pc = "done"
              /\ outcome = "err"
              /\ producer = "none"
              /\ parsed = <<>>
              /\ delivered = <<>>
        /\ transport \in {"connect", "midstream"} => httpRequests = 1

\* C15 witness: the turn ended on a non-2xx status
C15_Witness ==
    /\ kind = "process_streaming"
    /\ transport = "status"
    /\ pc = "done"
    /\ httpRequests = 1

----------------------------------------------------------------------------
\* C16: for a block that fails verification the loop makes at most max_attempts
\* fix requests whatever the replies are, makes none after a fixed code has
\* verified, and verifies once per fix reply at most
C16_AtMostMaxAttemptsFixRequests ==
    /\ fixRequests <= MaxAttempts
    /\ verifyCalls <= fixRequests + 1
    /\ fPc = "loop" =>
         ~ \E i \in DOMAIN verifyLog :
              verifyLog[i].block = blockIdx /\ verifyLog[i].kind = "fixed"

\* C17: once the message is displayed, a block whose fix verified shows the
\* fixed code in the displayed message and in the reply the conversation stores;
\* a block whose attempts all failed (none verified, none ended in an error)
\* is unchanged and has exactly one exhaustion message
LogOf(b, k) ==
    { i \in DOMAIN verifyLog : verifyLog[i].block = b /\ verifyLog[i].kind = k }

StoredReply == messages[2].content.blocks

C17_FixedBlockReplaced ==
    fPc = "done" =>
      \A b \in DOMAIN code_blocks :
        /\ \A i \in LogOf(b, "fixed") :
              /\ processed_text[b].code = verifyLog[i].code
              /\ StoredReply[b].code = verifyLog[i].code
        /\ (LogOf(b, "detected") # {} /\ LogOf(b, "fixed") = {}
                                      /\ LogOf(b, "warn") = {}) =>
              /\ processed_text[b] = StoredReply[b]
              /\ Cardinality(LogOf(b, "exhausted")) = 1
        /\ LogOf(b, "exhausted") # {} => LogOf(b, "fixed") = {}

----------------------------------------------------------------------------
\* C18: when a turn has appended the User message and hands its prompt to the
\* LLM, a conversation whose estimated tokens exceed threshold * max_tokens has
\* been compressed: the conversation and the prompt are those of the compressed
\* conversation
C18_CompressedBeforePrompt ==
    (pc \in {"llm", "connect"} /\ ~panicked) =>
      \A cfg \in CompressionConfigs :
        LET appended == AddMsg(turnPre, MessageUser(Input(1)), max_messages) IN
          ShouldCompress(appended, cfg) =>
            /\ messages = CompressWithConfig(appended, cfg)
            /\ prompt = ToPrompt(CompressWithConfig(appended, cfg))

----------------------------------------------------------------------------
\* C19: with N the non-System messages of the conversation and k =
\* preserve_recent, compress preserves exactly the last min(k, |N|) messages of
\* N in order, has a compressed history iff |N| > k, whose original_count is
\* then |N| - k, and saves no tokens when |N| <= k
LastOf(s, m) == [i \in 1..m |-> s[Len(s) - m + i]]

ExpectedConversation(cc) ==
    (IF cc.system_message # <<>>
     THEN <<MessageSystem(cc.system_message[1].content)>> ELSE <<>>)
    \o (IF cc.compressed_history # <<>>
        THEN <<MessageSystem(cc.compressed_history[1])>> ELSE <<>>)
    \o cc.preserved_messages

C20_ToConversationKeepsAll ==
    cPc = "converted" =>
      /\ messages = ExpectedConversation(compressed)
      /\ (/\ compressed.original_message_count = 31
          /\ compressed.system_message # <<>>
          /\ compression_config.preserve_recent = 10) => Len(messages) = 12

----------------------------------------------------------------------------
\* C21: the conversation that compress and to_conversation give has a System
\* message iff the compressed conversation had one, and is not longer than it
HasSystem(msgs) == \E i \in DOMAIN msgs : msgs[i].role = "System"

C21_SystemIffAndNotLonger ==
    cPc = "converted" =>
      /\ HasSystem(messages) <=> (compressed.system_message # <<>>)
      /\ Len(messages) <= compressed.original_message_count

\* C22: compressing the conversation built from a compressed conversation gives
\* the same system message, a summary with the same original_count and the
\* same preserved messages
C22_CompressIdempotentInShape ==
    cPc = "recompressed" =>
      /\ recompressed.system_message = compressed.system_message
      /\ recompressed.compressed_history = compressed.compressed_history
      /\ recompressed.preserved_messages = compressed.preserved_messages

----------------------------------------------------------------------------
\* C23 as stated: the estimate of a message is the ASCII characters over 4
\* rounded up, plus the other characters over 2 rounded up, plus 4; the estimate
\* of a conversation is the sum over its messages and is zero only when empty
RECURSIVE SumOf(_)
SumOf(ns) == IF ns = <<>> THEN 0 ELSE Head(ns) + SumOf(Tail(ns))

CeilDiv(a, b) == IF a % b = 0 THEN a \div b ELSE (a \div b) + 1
FloorDiv(a, b) == (a - (a % b)) \div b

SumAndZero ==
    /\ token_estimate.total = SumOf(token_estimate.messages)
    /\ (token_estimate.total = 0) <=> (messages = <<>>)

C23_EstimateRoundsUp ==
    token_estimate # NoEstimate =>
      /\ \A i \in DOMAIN messages :
            token_estimate.messages[i] =
               CeilDiv(messages[i].content.ascii, 4)
               + CeilDiv(messages[i].content.non_ascii, 2) + 4
      /\ SumAndZero

\* C23 amended: the estimate of a message is the ASCII characters over 4
\* rounded down, plus the other characters over 2 rounded down, plus 1, plus 4;
\* the estimate of a conversation is the sum over its messages and is zero only
\* when empty
C23_EstimateRoundsDownPlusOne ==
    token_estimate # NoEstimate =>
      /\ \A i \in DOMAIN messages :
            token_estimate.messages[i] =
               FloorDiv(messages[i].content.ascii, 4)
               + FloorDiv(messages[i].content.non_ascii, 2) + 1 + 4
      /\ SumAndZero

C23_Witness ==
    /\ token_estimate # NoEstimate
    /\ Len(messages) = 2
    /\ messages[1].content = CharsText(4, 0)
    /\ token_estimate.messages[1] = 6
    /\ messages[2].content = CharsText(1, 1)
    /\ token_estimate.messages[2] = 5
    /\ token_estimate.total = 11

----------------------------------------------------------------------------
\* C24: parse returns Ok with the tool calls in the order of their blocks; a
\* block that is not one JSON text with a string "tool" is skipped, the other
\* calls staying in place; a call without "params" gets the empty object
IsCallBlock(block) ==
    Len(block) = 1 /\ block[1] \in {CallRead, CallGlob}

CallOfBlock(block) ==
    IF block[1] = CallRead THEN [tool |-> "read", params |-> "file_path"]
    ELSE [tool |-> "glob", params |-> EmptyObject]

CallBlocks(r) == SelectSeq(ExtractJsonBlocks(r), IsCallBlock)

Fenced(r) ==
    LET ms == FenceMatches(r, 1)
        RECURSIVE Join(_)
        Join(i) == IF i > Len(ms) THEN <<>>
                   ELSE SubSeq(r, ms[i].open, ms[i].close) \o Join(i + 1)
    IN  Join(1)

C25_SplitThenReattach ==
    parsed_response # NoParse =>
      /\ Parse(parsed_response.text \o Fenced(response)).calls = parsed_response.calls
      /\ parsed_response.split_calls = parsed_response.calls

----------------------------------------------------------------------------
\* C26: every tool allowed in Plan mode is allowed in Execute mode, and some
\* tool allowed in Execute mode is not allowed in Plan mode
ToolNames == MainRegistry \cup ReplyTools

C26_PlanStrictSubsetOfExecute ==
    /\ \A t \in ToolNames : IsToolAllowed("plan", t) => IsToolAllowed("execute", t)
    /\ \E t \in ToolNames : IsToolAllowed("execute", t) /\ ~IsToolAllowed("plan", t)
    /\ \A k \in 1..Len(executed) : IsToolAllowed("execute", executed[k].tool)

\* a turn in plan mode that ended after its only call, write, was refused
C26_Witness ==
    /\ kind = "process"
    /\ pc = "done"
    /\ mode = "plan"
    /\ turnCalls = <<"write">>
    /\ executed = <<>>
    /\ IsToolAllowed("execute", "write")

----------------------------------------------------------------------------
\* Properties of the persisted history

\* C27: save(name, c) followed by load(name) returns a conversation with as
\* many messages as c, in the same order, each with the role and the content
\* it had, and with a tool_name exactly on the messages of role Tool.
C27_SaveLoadRoundTrip ==
    loaded # NotLoaded =>
      /\ Len(loaded.messages) = Len(messages)
      /\ \A i \in DOMAIN loaded.messages :
           /\ i \in DOMAIN messages
           /\ loaded.messages[i].role = messages[i].role
           /\ loaded.messages[i].content = messages[i].content
           /\ (loaded.messages[i].tool_name # "none") <=> (loaded.messages[i].role = "Tool")

----------------------------------------------------------------------------
\* Properties of the tools

\* the types the parameter schemas give to the required parameters: strings,
\* integers, and for files an array of strings
WellTyped(accessor, v) ==
    CASE accessor = "as_str" -> v.type = "string"
      [] accessor = "as_u64" -> v.type = "number"
      [] accessor = "as_array" ->
           /\ v.type = "array"
           /\ \A k \in DOMAIN v.value : v.value[k].type = "string"

InvalidInput(call) ==
    \E j \in DOMAIN RequiredParams(call.tool) :
        ~WellTyped(RequiredParams(call.tool)[j].accessor,
                   Get(call.params, RequiredParams(call.tool)[j].name))

IsFailure(ret) == ret.kind = "ok" /\ ~ret.success /\ ret.error # NoText

\* C28: for every tool, execute with a required parameter missing or of the
\* wrong type returns a failure ToolResult (success false, error present), not
\* an Err, and does nothing to the filesystem, the shell or the git repository.
C28_InvalidInputIsFailureWithoutEffect ==
    (tool_call # NoCall /\ tool_return # NoReturn /\ InvalidInput(tool_call)) =>
        /\ IsFailure(tool_return)
        /\ effects = <<>>

\* C29: edit, with c the occurrences of old_string in the file: c = 0 is a
\* failure that leaves the file as it was; c > 1 without replace_all is a
\* failure that reports c and leaves the file as it was; otherwise the call
\* succeeds, replaces one occurrence (without replace_all) or all c (with it)
\* and reports the number replaced. Returns for a file that cannot be read or
\* written are left aside.
C29_EditByOccurrences ==
    [][ ( /\ tool_call # NoCall
          /\ tool_call.tool = "edit"
          /\ tool_return = NoReturn
          /\ tool_return' # NoReturn
          /\ Rejected("edit", tool_call.params) = {}
          /\ file_content # AbsentFile
          /\ tool_return'.error \notin {Says("Failed to read file"), Says("Failed to write file")} )
        => LET old == tool_call.params.old_string.value
               new == tool_call.params.new_string.value
               all == ReplaceAll(tool_call.params)
               c == CountMatches(file_content, old)
           IN  /\ c = 0 => IsFailure(tool_return') /\ file_content' = file_content
               /\ (c > 1 /\ ~all) =>
                    /\ IsFailure(tool_return')
                    /\ tool_return'.error.count = c
                    /\ file_content' = file_content
               /\ (c = 1 \/ (c > 1 /\ all)) =>
                    /\ tool_return'.kind = "ok"
                    /\ tool_return'.success
                    /\ tool_return'.output.count = (IF all THEN c ELSE 1)
                    /\ file_content' = Replacen(file_content, old, new, IF all THEN c ELSE 1)
      ]_vars

\* C30: when a bash command is still running at its timeout (the timeout
\* parameter, else the tool's default), execute returns a failure that states
\* the timeout, and the child is no longer running once it has returned.
C30_TimeoutKillsChild ==
    [][ ( /\ tool_call # NoCall
          /\ tool_call.tool = "bash"
          /\ child = "running"
          /\ clock >= TimeoutSecs(tool_call)
          /\ tool_return = NoReturn
          /\ tool_return' # NoReturn )
        => /\ IsFailure(tool_return')
           /\ tool_return'.error = SaysCount("Command timed out after seconds",
                                             TimeoutSecs(tool_call))
           /\ child' # "running"
      ]_vars

\* the matching lines there are at a search path
RECURSIVE SumCounts(_)
SumCounts(counts) == IF counts = <<>> THEN 0 ELSE Head(counts) + SumCounts(Tail(counts))

\* C31: grep returns at most 100 matching lines for any search path, a single
\* file as well as a directory, and its output carries the truncation marker
\* exactly when matches beyond the cap were dropped.
C31_GrepCappedAndMarked ==
    ( /\ tool_call # NoCall
      /\ tool_call.tool = "grep"
      /\ tool_return # NoReturn
      /\ tool_return.kind = "ok"
      /\ tool_return.success ) =>
        /\ tool_return.output.count <= GrepCap
        /\ (tool_return.output.name = " (truncated)")
             <=> (SumCounts(SearchPath(tool_call.params).files) > tool_return.output.count)

\* the stanzas of a finished turn's Assistant message: the pieces after the prose
StanzasOf(pieces) ==
    IF pieces # <<>> /\ pieces[1].layout = "{text_part}\n\n"
    THEN Tail(pieces)
    ELSE pieces

\* C32: after a process turn whose reply held tool calls, the final Assistant
\* message is the prose followed by one stanza per call, in call order, each
\* of the form "[tool]\n<output>\n\n", whether the call was executed, failed,
\* was denied by the mode or named an unknown tool.
C32_OneStanzaPerCall ==
    ( /\ kind = "process"
      /\ pc = "done"
      /\ outcome = "ok"
      /\ turnCalls # <<>>
      /\ ~panicked ) =>
        LET last == messages[Len(messages)]
        IN  /\ last.role = "Assistant"
            /\ last.content.kind = "transcript"
            /\ Len(StanzasOf(last.content.pieces)) = Len(turnCalls)
            /\ \A i \in 1..Len(turnCalls) :
                 /\ StanzasOf(last.content.pieces)[i].layout = "[{tool}]\n{output}\n\n"
                 /\ StanzasOf(last.content.pieces)[i].tool = turnCalls[i]

----------------------------------------------------------------------------
\* A turn dispatched while another task holds a clone of the ModeManager
\* (agent/core.rs 160-196, agent/mode.rs 107-149): each await on the RwLock is
\* a point where the other task's set can run

notDispatch == <<convVars, histVars, turnVars, streamVars, lspVars, retryVars, fixVars,
                 prompt, compressVars, sideVars, persistVars, toolVars, rawVars, pipeVars,
                 skillVars>>

\* position in the reply of the call at the head of the loop
CallIndex == Len(turnCalls) - Len(calls) + 1

\* `if !self.mode.is_tool_allowed(&call.tool).await`: one read of the lock; an
\* allowed call goes on to the registry and execute without reading the mode
\* again, a denied one goes on to build its message
CheckMode ==
    /\ ~panicked
    /\ pc = "tools"
    /\ calls # <<>>
    /\ IF IsToolAllowed(mode, Head(calls))
       THEN /\ ToolCallBody(Head(calls), CallIndex)
            /\ calls' = Tail(calls)
            /\ lastOp' = "add"
            /\ UNCHANGED <<pc, mode_checked>>
       ELSE /\ pc' = "denied"
            /\ mode_checked' = mode
            /\ UNCHANGED <<messages, panicked, preTrunc, truncated, lastOp, calls,
                           executed, full_response>>
    /\ UNCHANGED <<max_messages, overflow_checks, nextId, mode, registry, kind,
                   turnCalls, turnPre, prompts, outcome, transport>>
    /\ UNCHANGED <<streamVars, lspVars, retryVars, fixVars, prompt, compressVars,
                   sideVars, persistVars, toolVars, rawVars, pipeVars, skillVars>>

\* the denied branch: format!(.., call.tool, self.mode.current().await), a
\* second read of the lock, then add_tool_result, push_str and continue
DenyCall ==
    /\ ~panicked
    /\ pc = "denied"
    /\ ConvAdd(MessageTool(Head(calls), NotAllowed(CallIndex, mode)))
    /\ full_response' = Append(full_response,
           Piece(StanzaLayout(kind, "not_allowed"), Head(calls),
                 NotAllowed(CallIndex, mode)))
    /\ calls' = Tail(calls)
    /\ lastOp' = "add"
    /\ pc' = "tools"
    /\ mode_checked' = "none"
    /\ UNCHANGED <<max_messages, overflow_checks, nextId, mode, registry, kind,
                   turnCalls, turnPre, executed, prompts, outcome, transport>>
    /\ UNCHANGED <<streamVars, lspVars, retryVars, fixVars, prompt, compressVars,
                   sideVars, persistVars, toolVars, rawVars, pipeVars, skillVars>>

\* ModeManager::set on a clone of the manager, from another task, at any
\* point of the turn
SetFromOtherTask ==
    /\ pc \in {"llm", "tools", "denied"}
    /\ \E m \in Modes : m # mode /\ mode' = m
    /\ UNCHANGED <<convVars, histVars, registry, pc, kind, calls, turnCalls, turnPre,
                   executed, prompts, full_response, outcome, transport>>
    /\ UNCHANGED <<streamVars, lspVars, lateVars>>

NextDispatch ==
    \/ StartTurn
    \/ LlmReply
    \/ LlmError
    \/ CheckMode
    \/ DenyCall
    \/ SetFromOtherTask
    \/ FinishTurn

SpecDispatch == InitTurn /\ [][NextDispatch]_vars

\* C33: the mode named in the message of a denied call is the mode value that
\* the call was checked against and denied by, whatever another task sets
\* while the turn runs.
C33_DenialNamesDecidingMode ==
    [][ (pc = "denied" /\ pc' = "tools") =>
          messages'[Len(messages')].content = NotAllowed(CallIndex, mode_checked)
      ]_vars

\* C34: read_response consumes exactly one frame of the server's stdout: it
\* returns the frame at the head, and the frames already written behind it
\* stay there, intact and in order, for the read_response calls that follow.
C34_ReadConsumesOneFrame ==
    [][ (lspPc = "read" /\ pipe # <<>> /\ Len(returns') = Len(returns) + 1) =>
          /\ returns'[Len(returns')].frame = Head(pipe)
          /\ pipe' = Tail(pipe)
      ]_vars

----------------------------------------------------------------------------
\* The bare-JSON fallback on a text of characters (llm/tool_call.rs 63-85):
\* text.find gives a byte offset, chars().enumerate() gives character indices,
\* and the slice text[start..=i] is taken by bytes

MaxRawChars == 5     \* characters of a text given to find_raw_json

notRaw == <<convVars, histVars, turnVars, streamVars, lspVars, retryVars, fixVars,
            prompt, compressVars, sideVars, persistVars, toolVars, dispatchVars, pipeVars,
            skillVars>>

\* text.find('{'): the byte offset of the first {, -1 for None
FindOpen(text) ==
    IF \E j \in DOMAIN text : text[j] = "{"
    THEN ByteLen(Take(text, (CHOOSE j \in DOMAIN text :
                                 text[j] = "{" /\ \A k \in 1..(j - 1) : text[k] # "{") - 1))
    ELSE -1

\* the loop `for (i, &c) in chars.iter().enumerate().skip(start)` from the
\* 0-based index i on with the depth counted so far: the index at which depth
\* comes back to 0, -1 when the characters run out
RECURSIVE ScanFrom(_, _, _)
ScanFrom(text, i, depth) ==
    IF i >= Len(text) THEN -1
    ELSE LET c == text[i + 1]
             d == IF c = "{" THEN depth + 1
                  ELSE IF c = "}" THEN depth - 1
                  ELSE depth
         IN  IF c = "}" /\ d = 0 THEN i ELSE ScanFrom(text, i + 1, d)

\* &text[from..to] by byte offsets, both on character boundaries
ByteSlice(text, from, to) ==
    LET first == CHOOSE k \in 0..Len(text) : ByteLen(Take(text, k)) = from
        last == CHOOSE k \in 0..Len(text) : ByteLen(Take(text, k)) = to
    IN  SubSeq(text, first + 1, last)

RawSome(json) == [kind |-> "some", json |-> json]
RawNone == [kind |-> "none", json |-> <<>>]
RawPanic == [kind |-> "panic", json |-> <<>>]

\* find_raw_json of a text without surrounding whitespace
FindRawJsonText(text) ==
    LET start == FindOpen(text)
        i == IF start < 0 THEN -1 ELSE ScanFrom(text, start, 0)
    IN  IF start < 0 \/ i < 0 THEN RawNone
        ELSE IF ~IsCharBoundary(text, start) \/ ~IsCharBoundary(text, i + 1)
        THEN RawPanic
        ELSE RawSome(ByteSlice(text, start, i + 1))

\* extract_json_blocks on a text without fences calling find_raw_json
FindRawJsonStep ==
    /\ raw_json = NoRawJson
    /\ raw_json' = FindRawJsonText(raw_text)
    /\ UNCHANGED raw_text
    /\ UNCHANGED notRaw

RawChars == {"{", "}", "a", "e_acute"}

InitRawJson ==
    /\ messages = <<>>
    /\ max_messages = DefaultMaxMessages
    /\ overflow_checks = TRUE
    /\ panicked = FALSE
    /\ lastOp = "new"
    /\ preTrunc = <<>>
    /\ truncated = FALSE
    /\ nextId = 1
    /\ TurnIdle
    /\ StreamIdle
    /\ LspIdle
    /\ RetryIdle
    /\ FixIdle
    /\ prompt = <<>>
    /\ CompressIdle
    /\ SideIdle
    /\ history_file = NoFile
    /\ loaded = NotLoaded
    /\ tool_call = NoCall
    /\ tool_return = NoReturn
    /\ file_content = <<>>
    /\ effects = <<>>
    /\ child = "none"
    /\ clock = 0
    /\ DispatchIdle
    /\ PipeIdle
    /\ SkillIdle
    /\ raw_text \in SeqsUpTo(RawChars, MaxRawChars)
    /\ raw_json = NoRawJson

NextRawJson == FindRawJsonStep

SpecRawJson == InitRawJson /\ [][NextRawJson]_vars

\* the object that brace counting finds in a text: from the first { to the }
\* that closes it, by character positions
MatchingObject(text) ==
    IF \E j \in DOMAIN text : text[j] = "{"
    THEN LET open == CHOOSE j \in DOMAIN text :
                         text[j] = "{" /\ \A k \in 1..(j - 1) : text[k] # "{"
             close == ScanFrom(text, open - 1, 0)
         IN  IF close < 0 THEN RawNone ELSE RawSome(SubSeq(text, open, close + 1))
    ELSE RawNone

\* C35: on a text without fenced block the fallback yields at most one
\* candidate, and it is exactly the substring from the first { to its matching
\* } found by brace counting, also when multi-byte characters stand before or
\* inside the object.
C35_RawJsonIsMatchingObject ==
    raw_json # NoRawJson => raw_json = MatchingObject(raw_text)

\* the branch of the loop body that produced a tool result
BranchOf(content) ==
    CASE content.kind = "not_allowed" -> "not_allowed"
      [] content.kind \in {"output", "failure"} -> "ok"
      [] content.kind = "error" -> "err"
      [] OTHER -> "unknown"

\* the pieces that the loop pushed, without what full_response began with
LoopPieces(pieces) ==
    IF pieces # <<>> /\ pieces[1].layout \in {"{text_part}\n\n", "{response}"}
    THEN Tail(pieces)
    ELSE pieces

\* full_response as process builds it for the reply resp and the tool results
\* that the pieces carry
ProcessFullResponse(resp, pieces) ==
    InitialFullResponse("process", resp)
        \o [i \in DOMAIN LoopPieces(pieces) |->
              Piece(StanzaLayout("process", BranchOf(LoopPieces(pieces)[i].content)),
                    LoopPieces(pieces)[i].tool, LoopPieces(pieces)[i].content)]

\* C36: a streaming turn, with or without callback, ends with the final
\* Assistant content that process gives for the same reply and the same tool
\* results.
C36_VariantsAgreeOnAssistant ==
    ( /\ kind \in {"process_streaming", "process_streaming_with_callback"}
      /\ pc = "done"
      /\ outcome = "ok"
      /\ turnCalls # <<>>
      /\ ~panicked ) =>
        messages[Len(messages)] =
            MessageAssistant(Transcript(ProcessFullResponse(accumulated, full_response)))

\* C37: Tool::execute is invoked only for a name that is in the allowed list
\* of the current mode and is registered; a name outside the allowed list gets
\* the mode-denial message, also when no tool of that name exists; "Unknown
\* tool" is the answer only to an allowed name that is not registered; and a
\* registered tool that EXECUTE_TOOLS does not list is executed in no mode.
C37_ExecuteOnlyAllowedAndRegistered ==
    /\ \A k \in 1..Len(executed) :
          /\ executed[k].tool \in AllowedTools(executed[k].mode)
          /\ executed[k].tool \in registry
          /\ executed[k].tool \in EXECUTE_TOOLS
    /\ \A i \in DOMAIN LoopPieces(full_response) :
          LET c == LoopPieces(full_response)[i].content
          IN  /\ turnCalls[i] \notin AllowedTools(mode) => c = NotAllowed(i, mode)
              /\ c.kind = "unknown_tool" <=>
                     (turnCalls[i] \in AllowedTools(mode) /\ turnCalls[i] \notin registry)
              /\ c.kind \in {"output", "failure", "error"} <=>
                     \E k \in 1..Len(executed) : executed[k].n = i

\* a turn in execute mode on an LSP-less registry that refused the registered
\* tool deploy and answered Unknown tool to lsp_definition
C37_Witness ==
    /\ pc = "done"
    /\ mode = "execute"
    /\ OwnTool \in registry
    /\ turnCalls = <<OwnTool, "lsp_definition">>
    /\ LoopPieces(full_response)[1].content = NotAllowed(1, "execute")
    /\ LoopPieces(full_response)[2].content = UnknownTool(2)

\* C38: truncation never underflows, whatever max_messages is, also when it
\* is smaller than the number of System messages: add and set_max_messages
\* complete without panic and without wrap-around, keep every System message
\* and remove the non-System messages that do not fit.
C38_TruncationNeverUnderflows ==
    /\ ~panicked
    /\ lastOp \in {"add", "set_max_messages"} =>
          /\ SystemMsgs(messages) = SystemMsgs(preTrunc)
          /\ Len(NonSystemMsgs(messages))
                <= SaturatingSub(max_messages, Len(SystemMsgs(messages)))

----------------------------------------------------------------------------
\* A child spawned with stdout and stderr piped, read as BashTool::execute and
\* run_git_command read it: stdout to its end, then stderr to its end, then
\* wait (tools/bash/executor.rs 87-105, tools/git/operations.rs 23-34)

MaxWrites == 4       \* blocks a child program writes
PipeCapacity == 2    \* blocks a pipe holds before a write to it blocks

notPipe == <<convVars, histVars, turnVars, streamVars, lspVars, retryVars, fixVars,
             prompt, compressVars, sideVars, persistVars, toolVars, dispatchVars, rawVars,
             skillVars>>

\* the child is at a write that cannot proceed: the pipe it writes to is full
ChildBlocked ==
    /\ writer = "running"
    /\ written < Len(program)
    /\ IF program[written + 1] = "out" THEN out_pipe >= PipeCapacity
                                          ELSE err_pipe >= PipeCapacity

\* the child writes its next block to the pipe that has room for it
ChildWrite ==
    /\ writer = "running"
    /\ written < Len(program)
    /\ ~ChildBlocked
    /\ IF program[written + 1] = "out"
       THEN out_pipe' = out_pipe + 1 /\ UNCHANGED err_pipe
       ELSE err_pipe' = err_pipe + 1 /\ UNCHANGED out_pipe
    /\ written' = written + 1
    /\ UNCHANGED <<runner, program, writer, reader, out_read, err_read>>
    /\ UNCHANGED notPipe

\* the child has written everything: it exits, which closes both pipes
ChildDone ==
    /\ writer = "running"
    /\ written = Len(program)
    /\ writer' = "exited"
    /\ UNCHANGED <<runner, program, written, out_pipe, err_pipe, reader, out_read,
                   err_read>>
    /\ UNCHANGED notPipe

\* out.read_to_string(&mut stdout): what the pipe holds is read
ReadStdout ==
    /\ reader = "stdout"
    /\ out_pipe > 0
    /\ out_read' = out_read + out_pipe
    /\ out_pipe' = 0
    /\ UNCHANGED <<runner, program, written, writer, err_pipe, reader, err_read>>
    /\ UNCHANGED notPipe

\* read_to_string on stdout returns at end of file, once the child has closed it
StdoutEof ==
    /\ reader = "stdout"
    /\ out_pipe = 0
    /\ writer = "exited"
    /\ reader' = "stderr"
    /\ UNCHANGED <<runner, program, written, writer, out_pipe, err_pipe, out_read,
                   err_read>>
    /\ UNCHANGED notPipe

\* err.read_to_string(&mut stderr)
ReadStderr ==
    /\ reader = "stderr"
    /\ err_pipe > 0
    /\ err_read' = err_read + err_pipe
    /\ err_pipe' = 0
    /\ UNCHANGED <<runner, program, written, writer, out_pipe, reader, out_read>>
    /\ UNCHANGED notPipe

StderrEof ==
    /\ reader = "stderr"
    /\ err_pipe = 0
    /\ writer = "exited"
    /\ reader' = "wait"
    /\ UNCHANGED <<runner, program, written, writer, out_pipe, err_pipe, out_read,
                   err_read>>
    /\ UNCHANGED notPipe

\* child.wait() and the return of the status with the two strings
WaitReturn ==
    /\ reader = "wait"
    /\ writer = "exited"
    /\ reader' = "returned"
    /\ UNCHANGED <<runner, program, written, writer, out_pipe, err_pipe, out_read,
                   err_read>>
    /\ UNCHANGED notPipe

\* bash only: tokio::time::timeout elapses; the timeout is long enough for
\* every child that still makes progress, so it elapses on one that is stuck
PipeTimeout ==
    /\ runner = "bash"
    /\ reader = "stdout"
    /\ out_pipe = 0
    /\ ChildBlocked
    /\ reader' = "timed_out"
    /\ UNCHANGED <<runner, program, written, writer, out_pipe, err_pipe, out_read,
                   err_read>>
    /\ UNCHANGED notPipe

Programs == SeqsUpTo({"out", "err"}, MaxWrites)

InitPipes ==
    /\ messages = <<>>
    /\ max_messages = DefaultMaxMessages
    /\ overflow_checks = TRUE
    /\ panicked = FALSE
    /\ lastOp = "new"
    /\ preTrunc = <<>>
    /\ truncated = FALSE
    /\ nextId = 1
    /\ TurnIdle
    /\ StreamIdle
    /\ LspIdle
    /\ RetryIdle
    /\ FixIdle
    /\ prompt = <<>>
    /\ CompressIdle
    /\ SideIdle
    /\ history_file = NoFile
    /\ loaded = NotLoaded
    /\ tool_call = NoCall
    /\ tool_return = NoReturn
    /\ file_content = <<>>
    /\ effects = <<>>
    /\ child = "none"
    /\ clock = 0
    /\ DispatchIdle
    /\ RawIdle
    /\ SkillIdle
    /\ runner \in {"bash", "git"}
    /\ program \in Programs
    /\ written = 0
    /\ writer = "running"
    /\ out_pipe = 0
    /\ err_pipe = 0
    /\ reader = "stdout"
    /\ out_read = 0
    /\ err_read = 0

NextPipes ==
    \/ ChildWrite
    \/ ChildDone
    \/ ReadStdout
    \/ StdoutEof
    \/ ReadStderr
    \/ StderrEof
    \/ WaitReturn
    \/ PipeTimeout

SpecPipes == InitPipes /\ [][NextPipes]_vars

\* the operating system runs the child and the tool whenever they can run
SpecPipesFair == SpecPipes /\ WF_vars(NextPipes)

\* the blocks of one kind in a program
BlocksOf(what, prog) == Len(SelectSeq(prog, LAMBDA b : b = what))

\* C39: the tool eventually returns the exit status with the complete stdout
\* and stderr of a child that terminates when its pipes are drained, however
\* much the child writes to stderr before it closes stdout.
C39_ReturnsCompleteOutput ==
    <>( /\ reader = "returned"
        /\ out_read = BlocksOf("out", program)
        /\ err_read = BlocksOf("err", program) )

----------------------------------------------------------------------------
\* The skill registry (skills/registry.rs 158-167, 203-214)

MaxInserts == 4      \* insert_skill calls followed

notSkill == <<convVars, histVars, turnVars, streamVars, lspVars, retryVars, fixVars,
              prompt, compressVars, sideVars, persistVars, toolVars, dispatchVars, rawVars,
              pipeVars>>

SkillSources == {"User", "Superpowers"}

\* a Skill of the given metadata.name; version tells the inserts apart
Skill(name, source, version) == [name |-> name, source |-> source, version |-> version]

\* the argument of get: a name, with or without the "superpowers:" prefix
Plain(name) == [prefixed |-> FALSE, stem |-> name]
Prefixed(name) == [prefixed |-> TRUE, stem |-> name]

\* SkillRegistry::get: a prefixed name is looked up in superpowers_skills
\* only, any other in skills and then in superpowers_skills
GetSkill(key) ==
    IF key.prefixed
    THEN superpowers_skills[key.stem]
    ELSE IF skills[key.stem] # NoSkill
    THEN skills[key.stem]
    ELSE superpowers_skills[key.stem]

\* SkillRegistry::insert_skill, as load_embedded_skills and
\* load_from_directory call it for each skill they load
InsertSkill ==
    /\ Len(inserted) < MaxInserts
    /\ \E name \in SkillNames, source \in SkillSources :
         LET skill == Skill(name, source, Len(inserted) + 1)
         IN  /\ IF source = "Superpowers"
                THEN /\ superpowers_skills' = [superpowers_skills EXCEPT ![name] = skill]
                     /\ skills' = IF skills[name] = NoSkill
                                  THEN [skills EXCEPT ![name] = skill]
                                  ELSE skills
                ELSE /\ skills' = [skills EXCEPT ![name] = skill]
                     /\ UNCHANGED superpowers_skills
             /\ inserted' = Append(inserted, skill)
    /\ UNCHANGED notSkill

InitSkills ==
    /\ messages = <<>>
    /\ max_messages = DefaultMaxMessages
    /\ overflow_checks = TRUE
    /\ panicked = FALSE
    /\ lastOp = "new"
    /\ preTrunc = <<>>
    /\ truncated = FALSE
    /\ nextId = 1
    /\ TurnIdle
    /\ StreamIdle
    /\ LspIdle
    /\ RetryIdle
    /\ FixIdle
    /\ prompt = <<>>
    /\ CompressIdle
    /\ SideIdle
    /\ IoIdle

NextSkills == InsertSkill

SpecSkills == InitSkills /\ [][NextSkills]_vars

\* the inserts of a name from a source, in order
InsertsOf(name, source) ==
    SelectSeq(inserted, LAMBDA sk : sk.name = name /\ sk.source = source)

LastInsert(log) == log[Len(log)]

\* C40: whatever the order of the inserts, get(name) returns the User-sourced
\* skill of that name when there is one, get("superpowers:" + name) returns
\* the Superpowers-sourced one, and among several inserts of the same name and
\* source the last one is the one returned.
C40_SourcesAndLastInsertWin ==
    \A name \in SkillNames :
        /\ InsertsOf(name, "User") # <<>> =>
              GetSkill(Plain(name)) = LastInsert(InsertsOf(name, "User"))
        /\ InsertsOf(name, "Superpowers") # <<>> =>
              GetSkill(Prefixed(name)) = LastInsert(InsertsOf(name, "Superpowers"))
        /\ (InsertsOf(name, "User") = <<>> /\ InsertsOf(name, "Superpowers") # <<>>) =>
              GetSkill(Plain(name)) = LastInsert(InsertsOf(name, "Superpowers"))

====
